---------------------------- MODULE Spec2Model ----------------------------
(***************************************************************************)
(* myCORE habit tracker: the store (five storage adapters) with its user   *)
(* profile, habits, habit instances, tasks and projects; the scheduling    *)
(* rule, the suggestion engine and the streak / strength calculator.       *)
(*                                                                         *)
(* Dates.  A date string "YYYY-MM-DD" is modelled by its day number        *)
(* (days since 1970-01-01, a Thursday).  `new Date(dateStr)` is the        *)
(* instant of UTC midnight of that day; getDay() reads the weekday of      *)
(* that instant in the client's local timezone; formatDate() reads the     *)
(* UTC date of an instant.                                                 *)
(***************************************************************************)
EXTENDS Integers, Sequences, FiniteSets, TLC

VARIABLES
    adapter,    \* which storage adapter backs the store
    configured, \* whether the backend client exists (the Supabase client is null without its keys)
    profile,    \* the stored user profile
    cache,      \* the service's currentUser / currentUserCache field
    habits,     \* the stored habits
    instances,  \* the stored habit instances
    tasks,      \* the stored tasks
    projects,   \* the stored projects
    detached,   \* updateProjectProgress runs nobody awaits, oldest first
    tlast,      \* the most recent task / project call: its arguments and outcome
    inflight,   \* the updateTask calls in progress, oldest first
    used,       \* counters: habit-id generations handed out; onboardings, status updates and calls made
    calls,      \* the store calls in progress, one per caller
    last,       \* the most recent store call: its arguments and what it returned
    tz,         \* the client's timezone offset from UTC, in hours
    qDate,      \* scheduling query: the date string asked about
    qHabits,    \* scheduling query: the habit list
    qOut,       \* scheduling query: the result of createInstancesForDay / getHabitsForDay
    sWindow,    \* calculator input: the recent instances, in array order
    sTail,      \* calculator input: number of older instances, all completed
    sOut,       \* calculator output
    gInterests, \* suggestion query: the interests array
    gOut,       \* suggestion query: the result of getSuggestions
    session,    \* the authentication session: the signed-in user, or nobody
    accounts,   \* the stored profile rows, by the user they belong to
    since,      \* history: the profile reset() found cached, and who signed in after it
    ui,         \* the dashboard: the day's instances on screen and the last handleTrigger run
    fault       \* the storage request that is made to fail, and what the call did then

calcVars == <<qDate, qHabits, qOut, sWindow, sTail, sOut>>

taskVars == <<tasks, projects, detached, tlast, inflight>>

suggestVars == <<gInterests, gOut>>

appVars == <<session, accounts, since, ui, fault>>

storeVars == <<adapter, configured, profile, cache, habits, instances, used,
               calls, last, taskVars>>

vars == <<adapter, configured, profile, cache, habits, instances, tasks,
          projects, detached, tlast, inflight, used, calls, last,
          tz, qDate, qHabits, qOut, sWindow, sTail, sOut, gInterests, gOut,
          session, accounts, since, ui, fault>>

-----------------------------------------------------------------------------
(* Bounds *)

\* Today's date (day number 9 = 1970-01-10, a Saturday).
Today == 9

\* Days before / after today that the model's date universe spans.
PastDays == 1
FutureDays == 2
SeedAhead == 1

\* Longest instance history fed to the calculator.
MaxHistory == 22

\* Habits offered at onboarding (the head of the catalog).
MaxChosen == 2

\* Calls of completeOnboarding / updateInstanceStatus in one behaviour.
MaxOnboardings == 2
MaxUpdates == 2

\* Habit-id generations (onboardings that insert habits under fresh ids).
MaxGens == 1

\* Longest interests array handed to getSuggestions.
MaxInterests == 3

\* Tasks and projects stored at once, task / project calls in one behaviour,
\* and updateProjectProgress runs left unawaited at once.
MaxTasks == 4
MaxProjects == 2
MaxTaskCalls == 6
MaxDetached == 1

\* updateTask calls in progress at once, and the tasks and calls of a
\* behaviour in which they overlap.
MaxInFlight == 2
MaxOverlapTasks == 2
MaxOverlapCalls == 4

\* Concurrent callers, and the calls after initUser they make in one
\* behaviour.
NumCallers == 2
MaxCalls == 3

-----------------------------------------------------------------------------
(* Date utilities *)

TzOffsets == {-5, 0, 9}

Dates == (Today - PastDays) .. (Today + FutureDays)

\* Weekday (0 = Sunday .. 6 = Saturday) of a day number.
WeekdayOfDay(day) == (day + 4) % 7

\* Local calendar day of the instant `new Date(dateStr)` (UTC midnight):
\* west of Greenwich it is still the previous day.
LocalDayOfParsed(dateStr, offset) == IF offset < 0 THEN dateStr - 1 ELSE dateStr

\* new Date(dateStr).getDay()
GetDay(dateStr, offset) == WeekdayOfDay(LocalDayOfParsed(dateStr, offset))

\* formatDate(new Date()): the UTC date of the current instant.
TodayStr == Today

-----------------------------------------------------------------------------
(* Scheduling rule *)

IsWeekend(dateStr, offset) ==
    LET dayOfWeek == GetDay(dateStr, offset)
    IN  dayOfWeek = 0 \/ dayOfWeek = 6

\* The filter callback shared by createInstancesForDay, getHabitsForDay and
\* the inline scheduledHabits filters.
IsScheduled(h, dateStr, offset) ==
    IF h.schedule = "DAILY" THEN TRUE
    ELSE IF h.schedule = "WEEKDAYS" THEN ~IsWeekend(dateStr, offset)
    ELSE IF h.schedule = "WEEKENDS" THEN IsWeekend(dateStr, offset)
    ELSE TRUE

getHabitsForDay(dateStr, habitList, offset) ==
    LET Due(h) == IsScheduled(h, dateStr, offset)
    IN  SelectSeq(habitList, Due)

NewInstance(dateStr, h) ==
    [id |-> <<dateStr, h.id>>, habitId |-> h.id, date |-> dateStr,
     completed |-> FALSE, completedAt |-> "unset"]

createInstancesForDay(dateStr, habitList, offset) ==
    LET due == getHabitsForDay(dateStr, habitList, offset)
    IN  [i \in 1..Len(due) |-> NewInstance(dateStr, due[i])]

-----------------------------------------------------------------------------
(* Streak calculator *)

\* Insert x behind every element whose date is not older than x's (the
\* comparator b.date - a.date of a stable sort).
RECURSIVE InsertByDateDesc(_, _)
InsertByDateDesc(sorted, x) ==
    IF sorted = <<>> THEN <<x>>
    ELSE IF Head(sorted).date >= x.date
         THEN <<Head(sorted)>> \o InsertByDateDesc(Tail(sorted), x)
         ELSE <<x>> \o sorted

RECURSIVE SortByDateDesc(_)
SortByDateDesc(list) ==
    IF list = <<>> THEN <<>>
    ELSE InsertByDateDesc(SortByDateDesc(SubSeq(list, 1, Len(list) - 1)),
                          list[Len(list)])

\* The for-loop over the sorted instances, from position i with the streak
\* counted so far.
RECURSIVE StreakWalkBreaksOnToday(_, _, _, _)
StreakWalkBreaksOnToday(sorted, i, currentStreak, todayStr) ==
    IF i > Len(sorted) THEN currentStreak
    ELSE IF sorted[i].completed
         THEN StreakWalkBreaksOnToday(sorted, i + 1, currentStreak + 1, todayStr)
         ELSE currentStreak

RECURSIVE StreakWalk(_, _, _, _)
StreakWalk(sorted, i, currentStreak, todayStr) ==
    IF i > Len(sorted) THEN currentStreak
    ELSE IF sorted[i].completed
         THEN StreakWalk(sorted, i + 1, currentStreak + 1, todayStr)
         ELSE IF sorted[i].date = todayStr
              THEN StreakWalk(sorted, i + 1, currentStreak, todayStr)
              ELSE currentStreak

\* The walk without the exemption for today's open instance.
getHabitStreakNoTodayRule(list) ==
    StreakWalkBreaksOnToday(SortByDateDesc(list), 1, 0, TodayStr)

getHabitStreak(list) == StreakWalk(SortByDateDesc(list), 1, 0, TodayStr)

-----------------------------------------------------------------------------
(* JavaScript numbers.                                                     *)
(* calculateHabitStrength computes with IEEE-754 doubles.  A non-negative  *)
(* double is modelled exactly as [m, e], the value m * 2^e with m a        *)
(* natural number of at most 53 bits, and every operation rounds its exact *)
(* result to 53 bits, ties to even.  Naturals beyond TLC's 32-bit integer   *)
(* range are sequences of 15-bit limbs, least significant first.           *)

Limb == 2^15

RECURSIVE Big(_)
Big(n) == IF n = 0 THEN <<>> ELSE <<n % Limb>> \o Big(n \div Limb)

RECURSIVE BigTrim(_)
BigTrim(a) ==
    IF a = <<>> THEN <<>>
    ELSE IF a[Len(a)] = 0 THEN BigTrim(SubSeq(a, 1, Len(a) - 1))
    ELSE a

RECURSIVE BigToInt(_)
BigToInt(a) == IF a = <<>> THEN 0 ELSE Head(a) + Limb * BigToInt(Tail(a))

RECURSIVE BigAddCarry(_, _, _)
BigAddCarry(a, b, carry) ==
    IF a = <<>> /\ b = <<>> THEN (IF carry = 0 THEN <<>> ELSE <<carry>>)
    ELSE LET x == IF a = <<>> THEN 0 ELSE Head(a)
             y == IF b = <<>> THEN 0 ELSE Head(b)
             t == x + y + carry
         IN  <<t % Limb>> \o BigAddCarry(IF a = <<>> THEN <<>> ELSE Tail(a),
                                         IF b = <<>> THEN <<>> ELSE Tail(b),
                                         t \div Limb)

BigAdd(a, b) == BigTrim(BigAddCarry(a, b, 0))

RECURSIVE BigMulSmallCarry(_, _, _)
BigMulSmallCarry(a, k, carry) ==
    IF a = <<>> THEN (IF carry = 0 THEN <<>> ELSE <<carry>>)
    ELSE LET t == Head(a) * k + carry
         IN  <<t % Limb>> \o BigMulSmallCarry(Tail(a), k, t \div Limb)

\* a * k for a limb-sized k
BigMulSmall(a, k) == BigTrim(BigMulSmallCarry(a, k, 0))

RECURSIVE BigMul(_, _)
BigMul(a, b) ==
    IF b = <<>> \/ a = <<>> THEN <<>>
    ELSE LET rest == BigMul(a, Tail(b))
         IN  BigAdd(BigMulSmall(a, Head(b)),
                    IF rest = <<>> THEN <<>> ELSE <<0>> \o rest)

\* Long division by a limb-sized d, most significant limb first.
RECURSIVE BigDivSmallFrom(_, _, _, _)
BigDivSmallFrom(a, d, i, rem) ==
    IF i = 0 THEN [q |-> <<>>, r |-> rem]
    ELSE LET t == rem * Limb + a[i]
             low == BigDivSmallFrom(a, d, i - 1, t % d)
         IN  [q |-> Append(low.q, t \div d), r |-> low.r]

BigDivSmall(a, d) ==
    LET res == BigDivSmallFrom(a, d, Len(a), 0)
    IN  [q |-> BigTrim(res.q), r |-> res.r]

RECURSIVE BitLenSmall(_)
BitLenSmall(n) == IF n = 0 THEN 0 ELSE 1 + BitLenSmall(n \div 2)

BigBitLen(a) == IF a = <<>> THEN 0 ELSE 15 * (Len(a) - 1) + BitLenSmall(a[Len(a)])

\* a * 2^k
BigShl(a, k) ==
    IF a = <<>> THEN <<>>
    ELSE [i \in 1..(k \div 15) |-> 0] \o BigMulSmall(a, 2^(k % 15))

\* floor(a / 2^k)
BigShr(a, k) ==
    IF Len(a) <= k \div 15 THEN <<>>
    ELSE BigDivSmall(SubSeq(a, (k \div 15) + 1, Len(a)), 2^(k % 15)).q

\* a mod 2^k
BigLow(a, k) ==
    IF Len(a) <= k \div 15 THEN a
    ELSE BigTrim(SubSeq(a, 1, k \div 15) \o <<a[(k \div 15) + 1] % (2^(k % 15))>>)

BigIsOdd(a) == a # <<>> /\ a[1] % 2 = 1

\* -1, 0, 1 as a < b, a = b, a > b (trimmed naturals)
RECURSIVE BigCmpFrom(_, _, _)
BigCmpFrom(a, b, i) ==
    IF i = 0 THEN 0
    ELSE IF a[i] < b[i] THEN -1
    ELSE IF a[i] > b[i] THEN 1
    ELSE BigCmpFrom(a, b, i - 1)

BigCmp(a, b) ==
    IF Len(a) < Len(b) THEN -1
    ELSE IF Len(a) > Len(b) THEN 1
    ELSE BigCmpFrom(a, b, Len(a))

\* Bits of a double's significand.
MantissaBits == 53

\* The double nearest to n * 2^e (plus a non-zero amount below one unit of n
\* when sticky), ties to even.
RoundToDouble(n, e, sticky) ==
    LET len == BigBitLen(n)
    IN  IF len <= MantissaBits THEN [m |-> n, e |-> e]
        ELSE LET shift == len - MantissaBits
                 q == BigShr(n, shift)
                 r == BigLow(n, shift)
                 half == BigShl(<<1>>, shift - 1)
                 cmp == BigCmp(r, half)
                 up == cmp > 0 \/ (cmp = 0 /\ (sticky \/ BigIsOdd(q)))
                 m == IF up THEN BigAdd(q, <<1>>) ELSE q
             IN  IF BigBitLen(m) > MantissaBits
                 THEN [m |-> BigShr(m, 1), e |-> e + shift + 1]
                 ELSE [m |-> m, e |-> e + shift]

NumOfInt(n) == [m |-> Big(n), e |-> 0]

\* a / b for small naturals a, b (b > 0): the quotient to 64 fraction bits,
\* then rounded.
NumDivInts(a, b) ==
    LET d == BigDivSmall(BigShl(Big(a), 64), b)
    IN  RoundToDouble(d.q, -64, d.r # 0)

NumMul(x, y) == RoundToDouble(BigMul(x.m, y.m), x.e + y.e, FALSE)

NumAdd(x, y) ==
    IF x.m = <<>> THEN y
    ELSE IF y.m = <<>> THEN x
    ELSE LET e == IF x.e < y.e THEN x.e ELSE y.e
         IN  RoundToDouble(BigAdd(BigShl(x.m, x.e - e), BigShl(y.m, y.e - e)), e, FALSE)

\* Math.round: the integer nearest to the double, ties upward.
MathRound(x) ==
    IF x.e >= 0 THEN BigToInt(BigShl(x.m, x.e))
    ELSE BigToInt(BigShr(BigAdd(x.m, BigShl(<<1>>, (-x.e) - 1)), -x.e))

\* The literals 0.7 and 0.3: the doubles nearest to 7/10 and 3/10.
ConsistencyWeight == NumDivInts(7, 10)
MomentumWeight == NumDivInts(3, 10)

\* Streak length beyond which the momentum bonus no longer grows.
StreakCap == 21

MinOf(a, b) == IF a < b THEN a ELSE b

\* The score with the consistency term taken from the instances not completed.
StrengthScoreOfMisses(totalCompleted, totalInstances, currentStreak) ==
    LET completionRate == NumMul(NumDivInts(totalInstances - totalCompleted,
                                            totalInstances),
                                 NumOfInt(100))
        streakBonus == NumMul(NumDivInts(MinOf(currentStreak, StreakCap), StreakCap),
                              NumOfInt(100))
    IN  MathRound(NumAdd(NumMul(completionRate, ConsistencyWeight),
                         NumMul(streakBonus, MomentumWeight)))

\* Math.round((completionRate * 0.7) + (streakBonus * 0.3)) for
\* totalInstances > 0
StrengthScore(totalCompleted, totalInstances, currentStreak) ==
    LET completionRate == NumMul(NumDivInts(totalCompleted, totalInstances),
                                 NumOfInt(100))
        streakBonus == NumMul(NumDivInts(MinOf(currentStreak, StreakCap), StreakCap),
                              NumOfInt(100))
    IN  MathRound(NumAdd(NumMul(completionRate, ConsistencyWeight),
                         NumMul(streakBonus, MomentumWeight)))

calculateHabitStrength(list) ==
    LET sorted == SortByDateDesc(list)
        currentStreak == StreakWalk(sorted, 1, 0, TodayStr)
        totalCompleted == Cardinality({i \in 1..Len(sorted) : sorted[i].completed})
        totalInstances == Len(sorted)
    IN  IF totalInstances = 0 THEN 0
        ELSE StrengthScore(totalCompleted, totalInstances, currentStreak)

-----------------------------------------------------------------------------
(* The store: data *)

\* localStorage (services/mockDb.ts), IndexedDB, Supabase (class
\* SupabaseDBService), the later Supabase service that kept the class name
\* MockDBService ("supabaseV2"), and Firebase.
Adapters == {"localStorage", "indexedDB", "supabase", "supabaseV2", "firebase"}

\* Adapters whose instances live in a table / object store keyed by id.
Keyed == Adapters \ {"localStorage"}

\* Adapters that give every inserted habit a fresh id (a generated uuid, a
\* Firestore auto-id, or userId_hN_Date.now()).
FreshHabitIds == {"supabase", "supabaseV2", "firebase"}

\* A habit id is <<template id, generation>>; generation 0 is the template id
\* itself.
SUGGESTED_HABITS ==
    << [id |-> <<"h1", 0>>, interest |-> "HEALTH", schedule |-> "DAILY"],
       [id |-> <<"h2", 0>>, interest |-> "FINANCE", schedule |-> "WEEKDAYS"],
       [id |-> <<"h3", 0>>, interest |-> "DETOX", schedule |-> "DAILY"],
       [id |-> <<"h4", 0>>, interest |-> "LEARNING", schedule |-> "DAILY"],
       [id |-> <<"h5", 0>>, interest |-> "PRODUCTIVITY", schedule |-> "WEEKDAYS"] >>

\* InterestType, as the catalog uses it.
InterestTypes == {"HEALTH", "FINANCE", "DETOX", "LEARNING", "PRODUCTIVITY"}

\* The services with a template catalog; the Supabase and Firebase services
\* answer getSuggestions with [].
HasCatalog(a) == a \in {"localStorage", "indexedDB", "supabaseV2"}

\* interests.includes(x)
Includes(interests, x) == \E i \in 1..Len(interests) : interests[i] = x

\* array.slice(0, n)
SliceTo(list, n) == SubSeq(list, 1, IF n < Len(list) THEN n ELSE Len(list))

\* The number of suggestions asked of the catalog.
SuggestionCount == 5

\* A backfill that takes the catalog from its head, selected or not.
BackfillRepeating(suggestions) == SUGGESTED_HABITS

\* The backfill: the catalog entries not yet among the suggestions.
Backfill(suggestions) ==
    SelectSeq(SUGGESTED_HABITS,
              LAMBDA h : ~\E i \in 1..Len(suggestions) : suggestions[i].id = h.id)

\* getSuggestions(interests)
getSuggestions(a, interests) ==
    IF ~HasCatalog(a) THEN <<>>
    ELSE LET suggestions ==
                 SelectSeq(SUGGESTED_HABITS, LAMBDA h : Includes(interests, h.interest))
             remaining == SuggestionCount - Len(suggestions)
             filled ==
                 IF Len(suggestions) < SuggestionCount
                 THEN suggestions \o SliceTo(Backfill(suggestions), remaining)
                 ELSE suggestions
         IN  SliceTo(filled, SuggestionCount)

TemplateRank(tpl) ==
    CHOOSE i \in 1..Len(SUGGESTED_HABITS) : SUGGESTED_HABITS[i].id[1] = tpl

\* The value of a property the object does not have.
Undefined == <<"undefined", 0>>

HabitIdLess(a, b) ==
    \/ a[2] < b[2]
    \/ a[2] = b[2] /\ TemplateRank(a[1]) < TemplateRank(b[1])

\* Key order of the composite instance id `${date}_${habitId}`.
InstanceIdLess(a, b) ==
    \/ a[1] < b[1]
    \/ a[1] = b[1] /\ HabitIdLess(a[2], b[2])

SeqToSet(s) == {s[i] : i \in 1..Len(s)}

IndexOfId(rows, id) ==
    IF \E i \in 1..Len(rows) : rows[i].id = id
    THEN CHOOSE i \in 1..Len(rows) :
             rows[i].id = id /\ \A j \in 1..(i - 1) : rows[j].id # id
    ELSE 0

-----------------------------------------------------------------------------
(* The store: storage primitives *)

\* A keyed write that does not replace the record already stored under the id.
RECURSIVE AddRecordBesideOld(_, _)
AddRecordBesideOld(rows, rec) ==
    IF rows = <<>> THEN <<rec>>
    ELSE IF rows[1].id # rec.id /\ InstanceIdLess(rec.id, rows[1].id)
         THEN <<rec>> \o rows
         ELSE <<rows[1]>> \o AddRecordBesideOld(Tail(rows), rec)

\* IDBObjectStore.put / Firestore set(ref, data): the record stored under
\* rec.id becomes rec, whole.
RECURSIVE PutRecord(_, _)
PutRecord(rows, rec) ==
    IF rows = <<>> THEN <<rec>>
    ELSE IF rows[1].id = rec.id THEN <<rec>> \o Tail(rows)
    ELSE IF InstanceIdLess(rec.id, rows[1].id) THEN <<rec>> \o rows
    ELSE <<rows[1]>> \o PutRecord(Tail(rows), rec)

RECURSIVE PutAll(_, _)
PutAll(rows, recs) ==
    IF recs = <<>> THEN rows ELSE PutAll(PutRecord(rows, Head(recs)), Tail(recs))

\* supabase upsert of {id, user_id, habit_id, date, completed}: a new row is
\* inserted (completed_at null); on a conflicting id the row's listed columns
\* are overwritten and completed_at stays.
UpsertRow(rows, rec) ==
    LET i == IndexOfId(rows, rec.id)
    IN  IF i = 0 THEN PutRecord(rows, rec)
        ELSE [rows EXCEPT ![i] = [rec EXCEPT !.completedAt = rows[i].completedAt]]

RECURSIVE UpsertAll(_, _)
UpsertAll(rows, recs) ==
    IF recs = <<>> THEN rows ELSE UpsertAll(UpsertRow(rows, Head(recs)), Tail(recs))

\* What a stored row looks like to the code reading it as a HabitInstance.
\* supabaseV2 casts the rows (columns habit_id, completed_at) without mapping
\* them, so habitId and completedAt are undefined.
InstanceView(a, rows) ==
    IF a = "supabaseV2"
    THEN [i \in 1..Len(rows) |->
             [rows[i] EXCEPT !.habitId = Undefined, !.completedAt = "unset"]]
    ELSE rows

OnDates(rows, dates) ==
    LET InRange(r) == r.date \in SeqToSet(dates)
    IN  SelectSeq(rows, InRange)

OnDate(rows, dateStr) == OnDates(rows, <<dateStr>>)

-----------------------------------------------------------------------------
(* The store: getHabits *)

OfHabit(list, habitId) ==
    LET Mine(i) == i.habitId = habitId
    IN  SelectSeq(list, Mine)

\* The stored habits, each with its streak computed from the instances read.
getHabits(a, storedHabits, storedInstances) ==
    LET seen == InstanceView(a, storedInstances)
    IN  [k \in 1..Len(storedHabits) |->
            [id |-> storedHabits[k].id,
             schedule |-> storedHabits[k].schedule,
             streak |-> getHabitStreak(OfHabit(seen, storedHabits[k].id))]]

-----------------------------------------------------------------------------
(* The store: a call in progress *)

NoId == <<0, Undefined>>

\* User['settings'] with everything off, as initUser creates it.
AllOff ==
    [locationEnabled |-> FALSE, notificationsEnabled |-> FALSE,
     screenTimeEnabled |-> FALSE]

\* The permissions argument of completeOnboarding.
NoPermissions == [loc |-> FALSE, notif |-> FALSE, screen |-> FALSE]

\* A User (exists = FALSE stands for null / no row): the fields the
\* operations read and write.
NoProfile ==
    [exists |-> FALSE, onboarded |-> FALSE, interests |-> <<>>,
     settings |-> AllOff]

\* newUser of initUser.
NewUser == [NoProfile EXCEPT !.exists = TRUE]

\* The profile as completeOnboarding writes it.
SettingsOf(permissions) ==
    [locationEnabled |-> permissions.loc,
     notificationsEnabled |-> permissions.notif,
     screenTimeEnabled |-> permissions.screen]

OnboardedUser(user, c) ==
    [user EXCEPT !.onboarded = TRUE, !.interests = c.interests,
                 !.settings = SettingsOf(c.permissions)]

\* A call record: the operation, its arguments, the point it has reached
\* (pc names the next await to resolve) and what it has read so far.
Idle ==
    [op |-> "idle", pc |-> "done", dates |-> <<>>, k |-> 0,
     seenInst |-> <<>>, seenHabits |-> <<>>, id |-> NoId, flag |-> FALSE,
     chosen |-> <<>>, interests |-> <<>>, permissions |-> NoPermissions, settings |-> AllOff,
     result |-> <<>>, created |-> <<>>, streaks |-> <<>>,
     user |-> NoProfile, threw |-> FALSE]

\* The settled call: arguments and outcome; locals are gone.
Finish(c) ==
    [Idle EXCEPT !.op = c.op, !.dates = c.dates, !.id = c.id, !.flag = c.flag,
                 !.chosen = c.chosen, !.interests = c.interests, !.permissions = c.permissions,
                 !.settings = c.settings,
                 !.result = c.result, !.created = c.created,
                 !.streaks = c.streaks, !.user = c.user, !.threw = c.threw]

Settled(c, st) == [c |-> Finish(c), st |-> st]

\* A promise that rejects: the call settles with the error.
Thrown(c, st) == [c |-> [Finish(c) EXCEPT !.threw = TRUE], st |-> st]

HabitRow(h) == [id |-> h.id, schedule |-> h.schedule]

HabitRows(hs) == [k \in 1..Len(hs) |-> HabitRow(hs[k])]

\* The window seedInstancesForWeek fills (i = -14..3, or -7..3), scaled.
SeedDates == [i \in 1..(PastDays + SeedAhead + 1) |-> Today - PastDays + i - 1]

\* Math.random() > 0.3 held for the instances named in lucky.
SeedCreate(dateStr, hs, offset, lucky) ==
    LET fresh == createInstancesForDay(dateStr, hs, offset)
    IN  [i \in 1..Len(fresh) |->
            IF dateStr < Today /\ fresh[i].id \in lucky
            THEN [fresh[i] EXCEPT !.completed = TRUE, !.completedAt = "stamped"]
            ELSE fresh[i]]

\* mockDb.ts seedInstancesForWeek: the loop over its local allInstances.
RECURSIVE LocalSeedLoop(_, _, _, _, _)
LocalSeedLoop(all, hs, k, offset, lucky) ==
    IF k > Len(SeedDates) THEN all
    ELSE LET dateStr == SeedDates[k]
             existing == OnDate(all, dateStr)
         IN  LocalSeedLoop(
                 IF existing = <<>>
                 THEN all \o SeedCreate(dateStr, hs, offset, lucky)
                 ELSE all,
                 hs, k + 1, offset, lucky)

\* part_000 seedInstancesForWeek: every due (date, habit) of the window.
RECURSIVE SeedRows(_, _, _)
SeedRows(hs, k, offset) ==
    IF k > Len(SeedDates) THEN <<>>
    ELSE createInstancesForDay(SeedDates[k], hs, offset) \o SeedRows(hs, k + 1, offset)

\* mockDb.ts getWeekInstances: the loop over dates; acc holds the locals
\* allInstances, weekInstances, hasChanges and what was created.
RECURSIVE LocalWeekLoop(_, _, _, _, _)
LocalWeekLoop(acc, hs, dates, k, offset) ==
    IF k > Len(dates) THEN acc
    ELSE LET dayInst == OnDate(acc.all, dates[k])
             made == createInstancesForDay(dates[k], hs, offset)
         IN  LocalWeekLoop(
                 IF dayInst = <<>>
                 THEN [all |-> acc.all \o made, week |-> acc.week \o made,
                       changed |-> TRUE, created |-> acc.created \o made]
                 ELSE [acc EXCEPT !.week = @ \o dayInst],
                 hs, dates, k + 1, offset)

\* The (date, habit) pairs the remote adapters find missing, date by date.
\* Have(inst, dateStr, h) is the adapter's test that inst is the instance of h
\* on dateStr.
RECURSIVE MissingById(_, _, _, _, _)
MissingById(seen, hs, dates, k, offset) ==
    IF k > Len(dates) THEN <<>>
    ELSE LET due == createInstancesForDay(dates[k], hs, offset)
             Absent(n) == \A i \in 1..Len(seen) : seen[i].id # n.id
         IN  SelectSeq(due, Absent) \o MissingById(seen, hs, dates, k + 1, offset)

RECURSIVE MissingByHabitAndDate(_, _, _, _, _)
MissingByHabitAndDate(seen, hs, dates, k, offset) ==
    IF k > Len(dates) THEN <<>>
    ELSE LET due == createInstancesForDay(dates[k], hs, offset)
             Absent(n) == \A i \in 1..Len(seen) :
                              ~(seen[i].habitId = n.habitId /\ seen[i].date = dates[k])
         IN  SelectSeq(due, Absent)
                 \o MissingByHabitAndDate(seen, hs, dates, k + 1, offset)

-----------------------------------------------------------------------------
(* The store: the operations, one await at a time *)

\* Each Step operator resolves one await of the call c against the store st
\* ([profile, habits, instances, gens]) and gives the call and the store
\* after it.  Code between two awaits runs without interruption.

AfterChunk(c, st) ==
    IF c.k < Len(c.dates)
    THEN [c |-> [c EXCEPT !.k = @ + 1, !.pc = "read", !.seenInst = <<>>,
                          !.seenHabits = <<>>],
          st |-> st]
    ELSE Settled(c, st)

\* getWeekInstances(dates); getInstancesForDate(dateStr) of the IndexedDB
\* adapter is the same code run on one date.
StepWeek(a, c, st, offset) ==
    IF a = "localStorage" THEN
        IF c.pc = "read"
        THEN \* read INSTANCES; getHabits() runs to its end before the await
             [c |-> [c EXCEPT !.pc = "write", !.seenInst = st.instances,
                              !.seenHabits = HabitRows(st.habits)],
              st |-> st]
        ELSE LET acc == IF Len(c.seenHabits) > 0
                        THEN LocalWeekLoop(
                                 [all |-> c.seenInst, week |-> <<>>,
                                  changed |-> FALSE, created |-> <<>>],
                                 c.seenHabits, c.dates, 1, offset)
                        ELSE [all |-> c.seenInst, week |-> <<>>,
                              changed |-> FALSE, created |-> <<>>]
             IN  Settled([c EXCEPT !.result = acc.week, !.created = acc.created],
                         IF acc.changed
                         THEN [st EXCEPT !.instances = acc.all]
                         ELSE st)
    ELSE IF a = "indexedDB" THEN
        IF c.pc = "read"
        THEN LET day == OnDate(st.instances, c.dates[c.k])
             IN  IF day # <<>>
                 THEN AfterChunk([c EXCEPT !.result = @ \o day], st)
                 ELSE [c |-> [c EXCEPT !.pc = "habits"], st |-> st]
        ELSE IF c.pc = "habits"
        THEN IF Len(st.habits) > 0
             THEN [c |-> [c EXCEPT !.pc = "write",
                                   !.seenHabits = HabitRows(st.habits)],
                   st |-> st]
             ELSE AfterChunk(c, st)
        ELSE LET made == createInstancesForDay(c.dates[c.k], c.seenHabits, offset)
             IN  AfterChunk([c EXCEPT !.result = @ \o made, !.created = @ \o made],
                            [st EXCEPT !.instances = PutAll(@, made)])
    ELSE \* supabase, supabaseV2, firebase
        IF c.pc = "read"
        THEN [c |-> [c EXCEPT !.pc = "habits",
                              !.seenInst = OnDates(InstanceView(a, st.instances),
                                                   c.dates)],
              st |-> st]
        ELSE IF c.pc = "habits"
        THEN [c |-> [c EXCEPT !.pc = "write", !.seenHabits = HabitRows(st.habits)],
              st |-> st]
        ELSE LET missing ==
                     IF a = "supabase"
                     THEN MissingById(c.seenInst, c.seenHabits, c.dates, 1, offset)
                     ELSE MissingByHabitAndDate(c.seenInst, c.seenHabits,
                                                c.dates, 1, offset)
             IN  Settled([c EXCEPT !.result = c.seenInst \o missing,
                                   !.created = missing],
                         IF a = "firebase"
                         THEN [st EXCEPT !.instances = PutAll(@, missing)]
                         ELSE [st EXCEPT !.instances = UpsertAll(@, missing)])

\* getInstancesForDate(dateStr), dates = <<dateStr>>.
StepDate(a, c, st, offset) ==
    IF a = "localStorage" THEN
        IF c.pc = "read"
        THEN LET day == OnDate(st.instances, c.dates[1])
             IN  IF day # <<>>
                 THEN Settled([c EXCEPT !.result = day], st)
                 ELSE [c |-> [c EXCEPT !.pc = "write", !.seenInst = st.instances,
                                       !.seenHabits = HabitRows(st.habits)],
                       st |-> st]
        ELSE IF Len(c.seenHabits) > 0
             THEN LET made == createInstancesForDay(c.dates[1], c.seenHabits, offset)
                  IN  Settled([c EXCEPT !.result = made, !.created = made],
                              [st EXCEPT !.instances = c.seenInst \o made])
             ELSE Settled(c, st)
    ELSE IF a = "indexedDB" THEN StepWeek(a, c, st, offset)
    ELSE \* firebase: "simplified here"
        Settled(c, st)

\* `if (!supabase) return;`
Unconfigured(a, st) == a = "supabaseV2" /\ ~st.configured

\* this.getUser() of the local adapters: the remembered user, else the stored
\* one.
CachedOrStored(st) == IF st.cache.exists THEN st.cache ELSE st.profile

\* The ids the adapter stores the chosen habits under.
StoredAs(a, chosen, gen) ==
    IF a \in FreshHabitIds
    THEN [k \in 1..Len(chosen) |->
             [id |-> <<chosen[k].id[1], gen>>, schedule |-> chosen[k].schedule]]
    ELSE HabitRows(chosen)

\* IDBObjectStore.put on the habits store, keyed by id.
RECURSIVE PutHabit(_, _)
PutHabit(rows, h) ==
    IF rows = <<>> THEN <<h>>
    ELSE IF rows[1].id = h.id THEN <<h>> \o Tail(rows)
    ELSE IF HabitIdLess(h.id, rows[1].id) THEN <<h>> \o rows
    ELSE <<rows[1]>> \o PutHabit(Tail(rows), h)

RECURSIVE PutHabits(_, _)
PutHabits(rows, hs) ==
    IF hs = <<>> THEN rows ELSE PutHabits(PutHabit(rows, Head(hs)), Tail(hs))

\* completeOnboarding(userId, interests, habits, permissions); the chosen
\* habits travel in c.seenHabits, and lucky names the instances for which
\* Math.random() > 0.3 holds when this step seeds them.
StepOnboard(a, c, st, offset, lucky) ==
    IF a = "localStorage" THEN
        \* after `await this.getUser()` the rest runs in one piece
        IF CachedOrStored(st).exists
        THEN Settled(c, [st EXCEPT
                 !.profile = OnboardedUser(CachedOrStored(st), c),
                 !.cache = OnboardedUser(CachedOrStored(st), c),
                 !.habits = c.seenHabits,
                 !.instances = LocalSeedLoop(@, c.seenHabits, 1, offset, lucky)])
        ELSE Settled(c, st)
    ELSE IF a = "indexedDB" THEN
        IF c.pc = "start"
        THEN IF st.profile.exists
             THEN [c |-> [c EXCEPT !.pc = "profile"], st |-> st]
             ELSE Settled(c, st)
        ELSE IF c.pc = "profile"
        THEN [c |-> [c EXCEPT !.pc = "habits"],
              st |-> [st EXCEPT !.profile = OnboardedUser(@, c),
                                !.cache = OnboardedUser(st.profile, c)]]
        ELSE IF c.pc = "habits"
        THEN [c |-> [c EXCEPT !.pc = "read", !.k = 1],
              st |-> [st EXCEPT !.habits = PutHabits(@, c.seenHabits)]]
        ELSE IF c.pc = "read"
        THEN IF OnDate(st.instances, SeedDates[c.k]) = <<>>
             THEN [c |-> [c EXCEPT !.pc = "write"], st |-> st]
             ELSE IF c.k < Len(SeedDates)
                  THEN [c |-> [c EXCEPT !.k = @ + 1], st |-> st]
                  ELSE Settled(c, st)
        ELSE LET made == SeedCreate(SeedDates[c.k], c.seenHabits, offset, lucky)
                 st2 == [st EXCEPT !.instances = PutAll(@, made)]
             IN  IF c.k < Len(SeedDates)
                 THEN [c |-> [c EXCEPT !.k = @ + 1, !.pc = "read"], st |-> st2]
                 ELSE Settled(c, st2)
    ELSE IF a = "firebase" THEN
        IF c.pc = "start"
        THEN IF st.profile.exists
             THEN [c |-> [c EXCEPT !.pc = "habits"],
                   st |-> [st EXCEPT !.profile = OnboardedUser(@, c)]]
             ELSE Thrown(c, st)   \* updateDoc rejects: no such document
        ELSE Settled(c, [st EXCEPT
                 !.habits = @ \o StoredAs(a, c.seenHabits, st.gens + 1),
                 !.gens = IF c.seenHabits = <<>> THEN @ ELSE @ + 1])
    ELSE \* supabase, supabaseV2
        IF c.pc = "start"
        THEN LET st2 == IF st.profile.exists
                        THEN [st EXCEPT !.profile = OnboardedUser(@, c)]
                        ELSE st
             IN  IF c.seenHabits = <<>> /\ a = "supabase"
                 THEN Settled(c, st2)
                 ELSE [c |-> [c EXCEPT !.pc = "habits"], st |-> st2]
        ELSE IF c.pc = "habits"
        THEN LET rows == StoredAs(a, c.seenHabits, st.gens + 1)
                 st2 == [st EXCEPT !.habits = @ \o rows,
                                   !.gens = IF rows = <<>> THEN @ ELSE @ + 1]
             IN  IF a = "supabase"
                 THEN Settled(c, st2)
                 ELSE [c |-> [c EXCEPT !.pc = "seed", !.seenHabits = rows],
                       st |-> st2]
        ELSE Settled(c, [st EXCEPT
                 !.instances = UpsertAll(@, SeedRows(c.seenHabits, 1, offset))])

\* updateInstanceStatus(instanceId, completed)
StepUpdate(a, c, st) ==
    LET i == IndexOfId(st.instances, c.id)
    IN  IF a = "indexedDB" THEN
            IF c.pc = "start"
            THEN IF i = 0
                 THEN Settled(c, st)
                 ELSE [c |-> [c EXCEPT !.pc = "write",
                                       !.seenInst = <<st.instances[i]>>],
                       st |-> st]
            ELSE LET instance == c.seenInst[1]
                 IN  Settled(c, [st EXCEPT !.instances = PutRecord(@,
                         [instance EXCEPT
                             !.completed = c.flag,
                             !.completedAt = IF c.flag THEN "stamped" ELSE @])])
        ELSE IF i = 0 THEN Settled(c, st)
        ELSE IF a = "supabaseV2"
        THEN Settled(c, [st EXCEPT
                 !.instances[i].completed = c.flag,
                 !.instances[i].completedAt = IF c.flag THEN "stamped" ELSE "unset"])
        ELSE \* localStorage, supabase, firebase: completedAt written only
             \* `if (completed)`
             Settled(c, [st EXCEPT
                 !.instances[i].completed = c.flag,
                 !.instances[i].completedAt = IF c.flag THEN "stamped" ELSE @])

\* What the adapter's look-up of the caller's profile finds: the Supabase
\* service asks getUser(), which answers from its currentUser field when that
\* is set; the others read the stored profile.
ExistingUser(a, st) ==
    IF a = "supabase" /\ st.cache.exists THEN st.cache ELSE st.profile

\* initUser(email, name): the profile found is returned and remembered, else
\* newUser is stored; a fresh localStorage user clears the other keys.
StepInitUser(a, c, st) ==
    LET existing == ExistingUser(a, st)
    IN  IF existing.exists
        THEN Settled([c EXCEPT !.user = existing],
                     [st EXCEPT !.cache = existing])
        ELSE Settled([c EXCEPT !.user = NewUser],
                 [st EXCEPT
                     !.profile = NewUser,
                     !.cache = NewUser,
                     !.habits = IF a = "localStorage" THEN <<>> ELSE @,
                     !.instances = IF a = "localStorage" THEN <<>> ELSE @,
                     !.tasks = IF a = "localStorage" THEN <<>> ELSE @,
                     !.projects = IF a = "localStorage" THEN <<>> ELSE @])

\* getUser(): the remembered user if there is one (part_000 always asks the
\* backend), else the stored profile, which is then remembered.
StepGetUser(a, c, st) ==
    IF a # "supabaseV2" /\ st.cache.exists
    THEN Settled([c EXCEPT !.user = st.cache], st)
    ELSE IF st.profile.exists
    THEN Settled([c EXCEPT !.user = st.profile],
                 [st EXCEPT !.cache = st.profile])
    ELSE Settled(c, st)

\* updateUserSettings(settings)
StepSettings(a, c, st) ==
    IF a \in {"localStorage", "indexedDB"} THEN
        LET user == CachedOrStored(st)
        IN  IF user.exists
            THEN Settled(c, [st EXCEPT
                     !.profile = [user EXCEPT !.settings = c.settings],
                     !.cache = [user EXCEPT !.settings = c.settings]])
            ELSE Settled(c, st)
    ELSE IF a = "supabaseV2" /\ ~st.cache.exists THEN Settled(c, st)
    ELSE IF a = "firebase" /\ ~st.profile.exists
    THEN Thrown(c, st)   \* updateDoc rejects: no such document
    ELSE Settled(c, [st EXCEPT
             !.profile = IF @.exists THEN [@ EXCEPT !.settings = c.settings] ELSE @,
             !.cache = IF @.exists THEN [@ EXCEPT !.settings = c.settings] ELSE @])

\* getHabits()
StepHabits(a, c, st) ==
    Settled([c EXCEPT !.streaks = getHabits(a, st.habits, st.instances)], st)

Step(a, c, st, offset, lucky) ==
    IF Unconfigured(a, st)
    THEN \* initUser throws "Supabase not configured"; the rest returns at once
         IF c.op = "initUser" THEN Thrown(c, st) ELSE Settled(c, st)
    ELSE IF c.op = "getWeekInstances" THEN StepWeek(a, c, st, offset)
    ELSE IF c.op = "getInstancesForDate" THEN StepDate(a, c, st, offset)
    ELSE IF c.op = "completeOnboarding" THEN StepOnboard(a, c, st, offset, lucky)
    ELSE IF c.op = "updateInstanceStatus" THEN StepUpdate(a, c, st)
    ELSE IF c.op = "initUser" THEN StepInitUser(a, c, st)
    ELSE IF c.op = "getUser" THEN StepGetUser(a, c, st)
    ELSE IF c.op = "updateUserSettings" THEN StepSettings(a, c, st)
    ELSE StepHabits(a, c, st)

\* The call run from its first await to its last with no other call between;
\* n is the call and the store so far.
RECURSIVE Run(_, _, _, _)
Run(a, n, offset, lucky) ==
    IF n.c.pc = "done" THEN n
    ELSE Run(a, Step(a, n.c, n.st, offset, lucky), offset, lucky)

-----------------------------------------------------------------------------
(* Tasks and projects: data *)

\* Task and project ids; no projectId (undefined / null) is NoProject.
TaskIds == 1..MaxTasks
ProjectIds == 1..MaxProjects
NoProject == 0

\* Partial<Task> as the callers build it: { completed } or { projectId }.
TaskUpdates ==
    [key : {"completed"}, completed : BOOLEAN, projectId : {NoProject}]
        \cup [key : {"projectId"}, completed : {FALSE},
              projectId : ProjectIds \cup {NoProject}]

\* { ...task, ...updates }
Merged(task, updates) ==
    IF updates.key = "completed"
    THEN [task EXCEPT !.completed = updates.completed]
    ELSE [task EXCEPT !.projectId = updates.projectId]

RowIndex(rows, id) ==
    IF \E i \in 1..Len(rows) : rows[i].id = id
    THEN CHOOSE i \in 1..Len(rows) : rows[i].id = id
    ELSE 0

\* put / setDoc / insert on a table keyed by id, kept in id order.
RECURSIVE PutRow(_, _)
PutRow(rows, rec) ==
    IF rows = <<>> THEN <<rec>>
    ELSE IF rows[1].id = rec.id THEN <<rec>> \o Tail(rows)
    ELSE IF rec.id < rows[1].id THEN <<rec>> \o rows
    ELSE <<rows[1]>> \o PutRow(Tail(rows), rec)

\* tasks.push(task) on the localStorage array, put on a keyed table.
AddRow(a, rows, rec) ==
    IF a = "localStorage" THEN Append(rows, rec) ELSE PutRow(rows, rec)

\* tasks.filter(t => t.id !== taskId) / delete by key
WithoutRow(rows, id) == SelectSeq(rows, LAMBDA r : r.id # id)

\* Math.round((completed / total) * 100)
RoundedPercent(completed, total) ==
    MathRound(NumMul(NumDivInts(completed, total), NumOfInt(100)))

\* The same, for every count of tasks the store can hold.
RoundedPercents ==
    [total \in 1..MaxTasks |->
        [completed \in 0..total |-> RoundedPercent(completed, total)]]

\* total === 0 ? 0 : Math.round((completed / total) * 100)
ProgressOf(completed, total) ==
    IF total = 0 THEN 0 ELSE RoundedPercents[total][completed]

\* A status that is never touched.
StatusKept(old, progress) == old

\* The local adapters: completed at 100, back to active below it.
StatusAfter(old, progress) ==
    IF progress = 100 THEN "completed"
    ELSE IF old = "completed" /\ progress < 100 THEN "active"
    ELSE old

\* The backends: progress === 100 ? 'completed' : 'active'
StatusOf(progress) == IF progress = 100 THEN "completed" ELSE "active"

\* The progress read off the stored tasks of the project.
CountedProgress(taskRows, projectId) ==
    LET projectTasks == SelectSeq(taskRows, LAMBDA t : t.projectId = projectId)
        completed == SelectSeq(projectTasks, LAMBDA t : t.completed)
    IN  ProgressOf(Len(completed), Len(projectTasks))

\* The write of updateProjectProgress: nothing when the project is not stored.
WithProgress(a, projectRows, projectId, progress) ==
    LET idx == RowIndex(projectRows, projectId)
    IN  IF idx = 0 THEN projectRows
        ELSE [projectRows EXCEPT ![idx] =
                 [@ EXCEPT !.progress = progress,
                           !.status = IF a \in {"localStorage", "indexedDB"}
                                      THEN StatusAfter(@, progress)
                                      ELSE StatusOf(progress)]]

\* updateProjectProgress(projectId), awaited to its end.
updateProjectProgress(a, st, projectId) ==
    [st EXCEPT !.projects =
        WithProgress(a, @, projectId, CountedProgress(st.tasks, projectId))]

\* `if (projectId) await this.updateProjectProgress(projectId)`
Recomputed(a, st, projectId) ==
    IF projectId = NoProject THEN st ELSE updateProjectProgress(a, st, projectId)

-----------------------------------------------------------------------------
(* Tasks and projects: the operations *)

\* What a call leaves: the store, whether its promise rejected, and the
\* projects whose updateProjectProgress it started without awaiting it.
Returned3(st, threw, started) == [st |-> st, threw |-> threw, started |-> started]

Resolved(st) == Returned3(st, FALSE, <<>>)

Rejected(st) == Returned3(st, TRUE, <<>>)

\* addTask(task)
addTask(a, st, task) ==
    IF Unconfigured(a, st) THEN Resolved(st)
    ELSE LET st2 == [st EXCEPT !.tasks = AddRow(a, @, task)]
         IN  IF a = "firebase"
             THEN \* `if (task.projectId) this.updateProjectProgress(...)`: no await
                  Returned3(st2, FALSE,
                            IF task.projectId # NoProject
                            THEN <<task.projectId>> ELSE <<>>)
             ELSE Resolved(Recomputed(a, st2, task.projectId))

\* The stored task after the adapter's update.
UpdatedRow(a, task, updates) ==
    IF a = "supabase"
    THEN \* only title and completed are mapped to columns
         IF updates.key = "completed" THEN Merged(task, updates) ELSE task
    ELSE IF a = "supabaseV2"
    THEN \* `if (updates.projectId) dbUpdates.project_id = updates.projectId`
         IF updates.key = "projectId" /\ updates.projectId = NoProject
         THEN task ELSE Merged(task, updates)
    ELSE Merged(task, updates)

\* updateTask(taskId, updates)
updateTask(a, st, taskId, updates) ==
    LET idx == RowIndex(st.tasks, taskId)
    IN  IF Unconfigured(a, st) THEN Resolved(st)
        ELSE IF a = "firebase" /\ idx = 0
        THEN Rejected(st)   \* updateDoc rejects: no such document
        ELSE IF a = "firebase" /\ updates.key = "projectId"
                               /\ updates.projectId = NoProject
        THEN Rejected(st)   \* updateDoc rejects a field value of undefined
        ELSE IF idx = 0 THEN Resolved(st)
        ELSE LET updated == UpdatedRow(a, st.tasks[idx], updates)
                 st2 == [st EXCEPT !.tasks[idx] = updated]
             IN  IF a \in {"localStorage", "indexedDB"}
                 THEN Resolved(Recomputed(a, st2, updated.projectId))
                 ELSE IF updates.key = "completed"
                 THEN Resolved(Recomputed(a, st2, updated.projectId))
                 ELSE Resolved(st2)

\* deleteTask(taskId)
deleteTask(a, st, taskId) ==
    LET idx == RowIndex(st.tasks, taskId)
        projectId == IF idx = 0 THEN NoProject ELSE st.tasks[idx].projectId
    IN  IF Unconfigured(a, st) THEN Resolved(st)
        ELSE Resolved(Recomputed(a,
                 [st EXCEPT !.tasks = WithoutRow(@, taskId)], projectId))

\* addProject(project)
addProject(a, st, project) ==
    IF Unconfigured(a, st) THEN Resolved(st)
    ELSE Resolved([st EXCEPT !.projects = AddRow(a, @, project)])

-----------------------------------------------------------------------------
(* Calculator harness: the functions applied to bounded instance lists *)

CalcHabit == [id |-> <<"h1", 0>>, schedule |-> "DAILY"]

CalcInstance(date, completed) ==
    [id |-> <<date, CalcHabit.id>>, habitId |-> CalcHabit.id, date |-> date,
     completed |-> completed,
     completedAt |-> IF completed THEN "stamped" ELSE "unset"]

\* The list handed to the calculator: the recent instances in array order,
\* followed by sTail older instances, one per day, all completed.
History(window, tail) ==
    window \o [k \in 1..tail |-> CalcInstance(Today - PastDays - k, TRUE)]

WindowDates(window) == {window[i].date : i \in 1..Len(window)}

NoCalc == [done |-> FALSE, streak |-> 0, strength |-> 0]

AddInstance(d, c) ==
    /\ d \notin WindowDates(sWindow)
    /\ sTail = 0
    /\ sWindow' = Append(sWindow, CalcInstance(d, c))
    /\ sOut' = NoCalc
    /\ UNCHANGED <<storeVars, suggestVars, tz, appVars, qDate, qHabits, qOut, sTail>>

AddOlderCompleted ==
    /\ Len(sWindow) + sTail < MaxHistory
    /\ sTail' = sTail + 1
    /\ sOut' = NoCalc
    /\ UNCHANGED <<storeVars, suggestVars, tz, appVars, qDate, qHabits, qOut, sWindow>>

Calculate ==
    /\ ~sOut.done
    /\ sOut' = [done |-> TRUE,
                streak |-> getHabitStreak(History(sWindow, sTail)),
                strength |-> calculateHabitStrength(History(sWindow, sTail))]
    /\ UNCHANGED <<storeVars, suggestVars, tz, appVars, qDate, qHabits, qOut, sWindow, sTail>>

-----------------------------------------------------------------------------
(* Scheduling harness: the rule applied to one date and one habit list *)

SchedHabits ==
    << [id |-> <<"h1", 0>>, schedule |-> "DAILY"],
       [id |-> <<"h2", 0>>, schedule |-> "WEEKDAYS"],
       [id |-> <<"h6", 0>>, schedule |-> "WEEKENDS"],
       [id |-> <<"h7", 0>>, schedule |-> "CUSTOM"],
       [id |-> <<"h8", 0>>, schedule |-> "MONTHLY"] >>

\* The sublist of `all` holding the positions in `keep`.
SubList(all, keep) ==
    LET Kept(i) == i \in keep
        RECURSIVE Pick(_)
        Pick(i) == IF i > Len(all) THEN <<>>
                   ELSE IF Kept(i) THEN <<all[i]>> \o Pick(i + 1)
                   ELSE Pick(i + 1)
    IN  Pick(1)

\* A week of date strings around today, so that every weekday occurs.
SchedDates == (Today - 3) .. (Today + 3)

NoQuery == [done |-> FALSE, due |-> <<>>, created |-> <<>>]

AskSchedule ==
    /\ ~qOut.done
    /\ qOut' = [done |-> TRUE,
                due |-> getHabitsForDay(qDate, qHabits, tz),
                created |-> createInstancesForDay(qDate, qHabits, tz)]
    /\ UNCHANGED <<storeVars, suggestVars, tz, appVars, qDate, qHabits, sWindow, sTail, sOut>>

NextQuery ==
    /\ qOut.done
    /\ qDate' \in SchedDates
    /\ qHabits' \in {SubList(SchedHabits, k) : k \in SUBSET (1..Len(SchedHabits))}
    /\ qOut' = NoQuery
    /\ UNCHANGED <<storeVars, suggestVars, tz, appVars, sWindow, sTail, sOut>>

-----------------------------------------------------------------------------
(* Suggestion harness: getSuggestions applied to one interests array *)

NoSuggestion == [done |-> FALSE, result |-> <<>>]

AddInterest(x) ==
    /\ ~gOut.done
    /\ Len(gInterests) < MaxInterests
    /\ gInterests' = Append(gInterests, x)
    /\ UNCHANGED <<storeVars, calcVars, tz, appVars, gOut>>

AskSuggestions ==
    /\ ~gOut.done
    /\ gOut' = [done |-> TRUE, result |-> getSuggestions(adapter, gInterests)]
    /\ UNCHANGED <<storeVars, calcVars, tz, appVars, gInterests>>

NextSuggestion ==
    /\ gOut.done
    /\ gInterests' = <<>>
    /\ gOut' = NoSuggestion
    /\ UNCHANGED <<storeVars, calcVars, tz, appVars>>

-----------------------------------------------------------------------------
(* The store: calls *)

Store ==
    [configured |-> configured, profile |-> profile, cache |-> cache,
     habits |-> habits, instances |-> instances, tasks |-> tasks,
     projects |-> projects, gens |-> used.gens]

\* What the onboarding screen can hand to completeOnboarding.
OnboardingChoices ==
    {SubList(SUGGESTED_HABITS, keep) : keep \in SUBSET (1..MaxChosen)}

\* The date lists asked for: runs of consecutive dates around today
\* (getWeekDays() runs from three days before today to three days after).
WeekRanges ==
    {[i \in 1..(hi - lo + 1) |-> lo + i - 1] :
        lo \in (Today - PastDays)..Today, hi \in Today..(Today + FutureDays)}

\* The instances of the seed window's past that Math.random() can complete.
PastSeedIds(a, chosen) ==
    IF a \in {"localStorage", "indexedDB"}
    THEN {<<d, chosen[k].id>> : d \in (Today - PastDays)..(Today - 1),
                                k \in 1..Len(chosen)}
    ELSE {}

\* The ids a caller can pass to updateInstanceStatus: a stored one, or one
\* that names nothing.
KnownIds == {instances[i].id : i \in 1..Len(instances)} \cup {NoId}

NewCall(op) == [Idle EXCEPT !.op = op, !.pc = "start"]

InitUserCall == NewCall("initUser")

OnboardCall(chosen) ==
    [NewCall("completeOnboarding") EXCEPT
        !.chosen = HabitRows(chosen), !.seenHabits = HabitRows(chosen)]

HabitsCall == NewCall("getHabits")

WeekCall(dates) ==
    [NewCall("getWeekInstances") EXCEPT !.pc = "read", !.dates = dates, !.k = 1]

DateCall(dateStr) ==
    [NewCall("getInstancesForDate") EXCEPT
        !.pc = "read", !.dates = <<dateStr>>, !.k = 1]

UpdateCall(id, completed) ==
    [NewCall("updateInstanceStatus") EXCEPT !.id = id, !.flag = completed]

HasInstancesForDate(a) == a \in {"localStorage", "indexedDB", "firebase"}

\* Whether the budget of the model allows the call.
Allowed(c) ==
    /\ c.op = "completeOnboarding" =>
           used.onboardings < MaxOnboardings /\ used.gens < MaxGens
    /\ c.op = "updateInstanceStatus" => used.updates < MaxUpdates
    /\ c.op = "getInstancesForDate" => HasInstancesForDate(adapter)

Charge(c, gens) ==
    [used EXCEPT !.gens = gens,
                 !.onboardings = IF c.op = "completeOnboarding" THEN @ + 1 ELSE @,
                 !.updates = IF c.op \in {"updateInstanceStatus", "updateUserSettings"}
                             THEN @ + 1 ELSE @]

\* A handler run alone, from call to return.
Handled(c, lucky) ==
    \E r \in {Run(adapter, [c |-> c, st |-> Store], tz, lucky)} :
           /\ profile' = r.st.profile
           /\ cache' = r.st.cache
           /\ habits' = r.st.habits
           /\ instances' = r.st.instances
           /\ tasks' = r.st.tasks
           /\ projects' = r.st.projects
           /\ used' = Charge(c, r.st.gens)
           /\ last' = r.c
           /\ UNCHANGED <<adapter, configured, calls, tz, appVars, calcVars, detached,
                          tlast, inflight, suggestVars>>

\* The same, within the budget of calls.
Call(c, lucky) == Allowed(c) /\ Handled(c, lucky)

InitUser == Call(InitUserCall, {})

CompleteOnboarding(chosen, lucky) == Call(OnboardCall(chosen), lucky)

GetHabits == Call(HabitsCall, {})

GetWeekInstances(dates) == Call(WeekCall(dates), {})

GetInstancesForDate(dateStr) == Call(DateCall(dateStr), {})

UpdateInstanceStatus(id, completed) == Call(UpdateCall(id, completed), {})

\* The calls of the session around onboarding: who the user is, what the
\* onboarding screen hands over, and the settings screen.
InterestChoices == {<<"HEALTH">>, <<"FINANCE", "DETOX">>}

PermissionChoices ==
    {NoPermissions, [loc |-> TRUE, notif |-> FALSE, screen |-> TRUE]}

SettingsChoices ==
    {AllOff, [locationEnabled |-> TRUE, notificationsEnabled |-> TRUE,
              screenTimeEnabled |-> TRUE]}

GetUser == Handled(NewCall("getUser"), {})

CompleteOnboardingAs(interests, chosen, permissions, lucky) ==
    /\ used.onboardings < MaxOnboardings
    /\ Handled([OnboardCall(chosen) EXCEPT
                   !.interests = interests, !.permissions = permissions], lucky)

UpdateUserSettings(settings) ==
    /\ used.updates < MaxUpdates
    /\ Handled([NewCall("updateUserSettings") EXCEPT !.settings = settings], {})

-----------------------------------------------------------------------------
(* Tasks and projects: calls *)

\* The task / project call made last: n counts the calls made.
NoTaskCall ==
    [op |-> "idle", n |-> 0, id |-> 0, projectId |-> NoProject,
     key |-> "none", completed |-> FALSE, threw |-> FALSE]

TaskStore == [configured |-> configured, tasks |-> tasks, projects |-> projects]

\* The id the caller gives a new task or project: one not in use.
FreshId(rows, ids) ==
    CHOOSE i \in ids :
        /\ RowIndex(rows, i) = 0
        /\ \A j \in ids : RowIndex(rows, j) = 0 => i <= j

StoredProjectIds == {projects[i].id : i \in 1..Len(projects)}

\* A new project as the caller hands it over.
NewProject(id) == [id |-> id, progress |-> 0, status |-> "active"]

\* A run of updateProjectProgress nobody awaits, before its getDocs resolves.
DetachedRun(projectId) == [projectId |-> projectId, pc |-> "read", progress |-> 0]

\* The call resolves (or rejects) and leaves out behind.
TaskCall(call, out) ==
    /\ tlast.n < MaxTaskCalls
    /\ Len(detached) + Len(out.started) <= MaxDetached
    /\ tasks' = out.st.tasks
    /\ projects' = out.st.projects
    /\ detached' = detached \o [i \in 1..Len(out.started) |-> DetachedRun(out.started[i])]
    /\ tlast' = [call EXCEPT !.n = tlast.n + 1, !.threw = out.threw]
    /\ UNCHANGED <<adapter, configured, profile, cache, habits, instances,
                   inflight, used, calls, last, tz, appVars, calcVars, suggestVars>>

AddTask(projectId, completed) ==
    /\ Len(tasks) < MaxTasks
    /\ \E id \in {FreshId(tasks, TaskIds)} :
         \E out \in {addTask(adapter, TaskStore,
                         [id |-> id, projectId |-> projectId, completed |-> completed])} :
             TaskCall([NoTaskCall EXCEPT !.op = "addTask", !.id = id,
                          !.projectId = projectId, !.completed = completed], out)

UpdateTask(taskId, updates) ==
    \E out \in {updateTask(adapter, TaskStore, taskId, updates)} :
        TaskCall([NoTaskCall EXCEPT !.op = "updateTask", !.id = taskId,
                     !.key = updates.key, !.projectId = updates.projectId,
                     !.completed = updates.completed], out)

DeleteTask(taskId) ==
    \E out \in {deleteTask(adapter, TaskStore, taskId)} :
        TaskCall([NoTaskCall EXCEPT !.op = "deleteTask", !.id = taskId], out)

AddProject ==
    /\ Len(projects) < MaxProjects
    /\ \E id \in {FreshId(projects, ProjectIds)} :
         \E out \in {addProject(adapter, TaskStore, NewProject(id))} :
             TaskCall([NoTaskCall EXCEPT !.op = "addProject", !.id = id], out)

\* The next await of an unawaited updateProjectProgress resolves: first the
\* query for the project's tasks, then the update of the project.
SettleDetached(i) ==
    /\ i \in 1..Len(detached)
    /\ IF detached[i].pc = "read"
       THEN /\ detached' = [detached EXCEPT ![i] =
                   [@ EXCEPT !.pc = "write",
                             !.progress = CountedProgress(tasks, detached[i].projectId)]]
            /\ UNCHANGED projects
       ELSE /\ projects' = WithProgress(adapter, projects,
                               detached[i].projectId, detached[i].progress)
            /\ detached' = SubSeq(detached, 1, i - 1)
                              \o SubSeq(detached, i + 1, Len(detached))
    /\ UNCHANGED <<adapter, configured, profile, cache, habits, instances,
                   tasks, tlast, inflight, used, calls, last, tz, appVars, calcVars,
                   suggestVars>>

-----------------------------------------------------------------------------
(* Tasks and projects: updateTask calls that overlap *)
(* A call gives way to the others at every await on the backend or on an   *)
(* IndexedDB request.  The localStorage service awaits only promises that  *)
(* are already settled, so a call of it started from an event handler runs *)
(* to its end before the next handler starts.                              *)

\* updateTask(taskId, { completed }) before its first await resolves.
ToggleRun(taskId, completed) ==
    [taskId |-> taskId, completed |-> completed, pc |-> "start",
     projectId |-> NoProject, total |-> 0, progress |-> 0, seen |-> <<>>,
     threw |-> FALSE]

Ended(run, st) == [run |-> [run EXCEPT !.pc = "done", !.seen = <<>>], st |-> st]

Failed(run, st) ==
    [run |-> [run EXCEPT !.pc = "done", !.seen = <<>>, !.threw = TRUE], st |-> st]

\* The number of stored tasks of the project, and of its completed ones.
CountOf(taskRows, projectId) ==
    Len(SelectSeq(taskRows, LAMBDA t : t.projectId = projectId))

CompletedCountOf(taskRows, projectId) ==
    Len(SelectSeq(taskRows, LAMBDA t : t.projectId = projectId /\ t.completed))

\* The next await of the call resolves.
StepToggle(a, run, st) ==
    LET idx == RowIndex(st.tasks, run.taskId)
        pidx == RowIndex(st.projects, run.projectId)
        updates == [key |-> "completed", completed |-> run.completed,
                    projectId |-> NoProject]
    IN  IF a = "localStorage" THEN
            Ended(run, updateTask(a, st, run.taskId, updates).st)
        ELSE IF a = "indexedDB" THEN
            IF run.pc = "start"            \* db.get('tasks', taskId)
            THEN IF idx = 0 THEN Ended(run, st)
                 ELSE [run |-> [run EXCEPT !.pc = "put", !.seen = <<st.tasks[idx]>>],
                       st |-> st]
            ELSE IF run.pc = "put"         \* db.put('tasks', updated)
            THEN LET updated == Merged(run.seen[1], updates)
                     st2 == [st EXCEPT !.tasks = PutRow(@, updated)]
                 IN  IF updated.projectId = NoProject THEN Ended(run, st2)
                     ELSE [run |-> [run EXCEPT !.pc = "read", !.seen = <<>>,
                                               !.projectId = updated.projectId],
                           st |-> st2]
            ELSE IF run.pc = "read"        \* db.getAll('tasks')
            THEN [run |-> [run EXCEPT
                               !.pc = "project",
                               !.progress = CountedProgress(st.tasks, run.projectId)],
                  st |-> st]
            ELSE IF run.pc = "project"     \* db.get('projects', projectId)
            THEN IF pidx = 0 THEN Ended(run, st)
                 ELSE [run |-> [run EXCEPT !.pc = "write",
                                           !.seen = <<st.projects[pidx]>>],
                       st |-> st]
            ELSE                           \* db.put('projects', project)
                 Ended(run, [st EXCEPT !.projects =
                     PutRow(@, [run.seen[1] EXCEPT
                                   !.progress = run.progress,
                                   !.status = StatusAfter(@, run.progress)])])
        ELSE \* supabase, supabaseV2, firebase
            IF run.pc = "start"            \* update(dbUpdates).eq('id', taskId) / updateDoc
            THEN IF Unconfigured(a, st) THEN Ended(run, st)
                 ELSE IF idx = 0
                 THEN IF a = "firebase" THEN Failed(run, st)
                      ELSE [run |-> [run EXCEPT !.pc = "project"], st |-> st]
                 ELSE [run |-> [run EXCEPT !.pc = "project"],
                       st |-> [st EXCEPT !.tasks[idx] =
                                  UpdatedRow(a, st.tasks[idx], updates)]]
            ELSE IF run.pc = "project"     \* select('project_id').single() / getDoc
            THEN IF idx = 0 \/ (idx # 0 /\ st.tasks[idx].projectId = NoProject)
                 THEN Ended(run, st)
                 ELSE [run |-> [run EXCEPT
                                   !.pc = IF a = "supabase" THEN "total" ELSE "read",
                                   !.projectId = st.tasks[idx].projectId],
                       st |-> st]
            ELSE IF run.pc = "total"       \* the count of the project's tasks
            THEN [run |-> [run EXCEPT !.pc = "completed",
                                      !.total = CountOf(st.tasks, run.projectId)],
                  st |-> st]
            ELSE IF run.pc = "completed"   \* the count of its completed tasks
            THEN [run |-> [run EXCEPT
                      !.pc = "write",
                      !.progress =
                          IF run.total = 0 THEN 0
                          ELSE RoundedPercent(
                                   CompletedCountOf(st.tasks, run.projectId),
                                   run.total)],
                  st |-> st]
            ELSE IF run.pc = "read"        \* the project's tasks in one query
            THEN [run |-> [run EXCEPT
                               !.pc = "write",
                               !.progress = CountedProgress(st.tasks, run.projectId)],
                  st |-> st]
            ELSE                           \* update({ progress, status }) / updateDoc
                 IF a = "firebase" /\ pidx = 0 THEN Failed(run, st)
                 ELSE Ended(run, [st EXCEPT !.projects =
                          WithProgress(a, @, run.projectId, run.progress)])

\* toggleTask: updateTask(taskId, { completed }) is called.
BeginToggle(taskId, completed) ==
    /\ tlast.n < MaxTaskCalls
    /\ Len(inflight) < MaxInFlight
    /\ inflight' = Append(inflight, ToggleRun(taskId, completed))
    /\ tlast' = [NoTaskCall EXCEPT !.op = "updateTask", !.id = taskId,
                    !.key = "completed", !.completed = completed,
                    !.n = tlast.n + 1]
    /\ UNCHANGED <<adapter, configured, profile, cache, habits, instances,
                   tasks, projects, detached, used, calls, last, tz, appVars, calcVars,
                   suggestVars>>

\* The next await of the i-th call in progress resolves; a call that has
\* returned leaves the list.
ResumeToggle(i) ==
    /\ i \in 1..Len(inflight)
    /\ \E r \in {StepToggle(adapter, inflight[i], TaskStore)} :
           /\ tasks' = r.st.tasks
           /\ projects' = r.st.projects
           /\ inflight' = IF r.run.pc = "done"
                          THEN SubSeq(inflight, 1, i - 1)
                                   \o SubSeq(inflight, i + 1, Len(inflight))
                          ELSE [inflight EXCEPT ![i] = r.run]
    /\ UNCHANGED <<adapter, configured, profile, cache, habits, instances,
                   detached, tlast, used, calls, last, tz, appVars, calcVars, suggestVars>>

-----------------------------------------------------------------------------
(* The store: calls in flight *)

Callers == 1..NumCallers

\* Caller p invokes the operation.
Begin(p, c) ==
    /\ calls[p].op = "idle"
    /\ c.op # "initUser" => used.started < MaxCalls
    /\ Allowed(c)
    /\ calls' = [calls EXCEPT ![p] = c]
    /\ used' = [Charge(c, used.gens) EXCEPT
                   !.started = IF c.op # "initUser" THEN @ + 1 ELSE @]
    /\ UNCHANGED <<adapter, configured, profile, cache, habits, instances, last,
                   tz, appVars, calcVars, taskVars, suggestVars>>

\* The instances the next step of call c seeds in the past, each of which
\* Math.random() may complete.
SeededNext(a, c) ==
    IF c.op # "completeOnboarding" THEN {}
    ELSE IF a = "localStorage" THEN PastSeedIds(a, c.seenHabits)
    ELSE IF a = "indexedDB" /\ c.pc = "write"
    THEN {id \in PastSeedIds(a, c.seenHabits) : id[1] = SeedDates[c.k]}
    ELSE {}

\* The next await of caller p's call resolves.  What the call will return is
\* not kept while it is in flight.
Resume(p, lucky) ==
    /\ calls[p].op # "idle"
    /\ \E r \in {Step(adapter, calls[p], Store, tz, lucky)} :
           /\ profile' = r.st.profile
           /\ cache' = r.st.cache
           /\ habits' = r.st.habits
           /\ instances' = r.st.instances
           /\ tasks' = r.st.tasks
           /\ projects' = r.st.projects
           /\ used' = [used EXCEPT !.gens = r.st.gens]
           /\ calls' = [calls EXCEPT ![p] =
                  IF r.c.pc = "done" THEN Idle
                  ELSE [r.c EXCEPT !.result = <<>>, !.created = <<>>]]
    /\ UNCHANGED <<adapter, configured, last, tz, appVars, calcVars, detached, tlast,
                   inflight, suggestVars>>

BeginInitUser(p) == Begin(p, InitUserCall)

BeginOnboarding(p, chosen) == Begin(p, OnboardCall(chosen))

BeginWeek(p, dates) == Begin(p, WeekCall(dates))

BeginDate(p, dateStr) == Begin(p, DateCall(dateStr))

BeginUpdate(p, id, completed) == Begin(p, UpdateCall(id, completed))

-----------------------------------------------------------------------------
(* Specifications *)

NoneUsed == [gens |-> 0, onboardings |-> 0, updates |-> 0, started |-> 0]

\* Who can sign in, and the session with nobody signed in
\* (auth.getUser() answers { user: null }, auth.currentUser is null).
UserIds == {"u1", "u2"}

SignedOut == "nobody"

NoAccounts == [u \in UserIds |-> NoProfile]

\* The dashboard before any data is loaded (useState([]), useState({}),
\* useState(null)), and no handleTrigger run yet.
NoTrigger ==
    [instanceId |-> NoId, newState |-> FALSE, notices |-> <<>>,
     invoked |-> FALSE, written |-> FALSE, threw |-> FALSE]

BlankScreen ==
    [week |-> <<>>, habits |-> <<>>, notificationsEnabled |-> FALSE,
     triggers |-> 0, run |-> NoTrigger]

\* No storage request is failing.
NoFault == [op |-> "idle", request |-> "none", threw |-> FALSE, persisted |-> TRUE]

\* No reset() yet.
NoReset == [dropped |-> NoProfile, next |-> SignedOut]

\* The application around the store, untouched.
InitApp ==
    /\ session = SignedOut
    /\ accounts = NoAccounts
    /\ since = NoReset
    /\ ui = BlankScreen
    /\ fault = NoFault

\* The store as constructed: nothing stored, nobody calling.
InitStore ==
    /\ configured = TRUE
    /\ profile = NoProfile
    /\ cache = NoProfile
    /\ tasks = <<>>
    /\ projects = <<>>
    /\ detached = <<>>
    /\ tlast = NoTaskCall
    /\ inflight = <<>>
    /\ habits = <<>>
    /\ instances = <<>>
    /\ used = NoneUsed
    /\ calls = [p \in Callers |-> Idle]
    /\ last = Idle

InitCalc == sWindow = <<>> /\ sTail = 0 /\ sOut = NoCalc

InitQuery ==
    /\ qDate = Today /\ qHabits = <<>> /\ qOut = NoQuery
    /\ gInterests = <<>> /\ gOut = NoSuggestion

\* The streak / strength calculator over bounded instance lists.
InitStreak ==
    adapter = "localStorage" /\ InitStore /\ tz = 0 /\ InitQuery /\ InitCalc
    /\ InitApp

NextStreak ==
    \/ \E d \in Dates, c \in BOOLEAN : AddInstance(d, c)
    \/ AddOlderCompleted
    \/ Calculate

SpecStreak == InitStreak /\ [][NextStreak]_vars

\* The scheduling rule over dates, habit lists and timezones.
InitSched ==
    adapter = "localStorage" /\ InitStore /\ tz \in TzOffsets /\ InitQuery /\ InitCalc
    /\ InitApp

NextSched == AskSchedule \/ NextQuery

SpecSched == InitSched /\ [][NextSched]_vars

\* getSuggestions over interests arrays, in every adapter.
InitSuggest ==
    adapter \in Adapters /\ InitStore /\ tz = 0 /\ InitQuery /\ InitCalc
    /\ InitApp

NextSuggest ==
    \/ \E x \in InterestTypes : AddInterest(x)
    \/ AskSuggestions
    \/ NextSuggestion

SpecSuggest == InitSuggest /\ [][NextSuggest]_vars

\* Tasks and projects, one call at a time; the backend of part_000 may be
\* left unconfigured.
InitTasks ==
    /\ adapter \in Adapters
    /\ configured \in BOOLEAN
    /\ configured \/ adapter = "supabaseV2"
    /\ profile = NoProfile /\ cache = NoProfile
    /\ habits = <<>> /\ instances = <<>>
    /\ tasks = <<>> /\ projects = <<>> /\ detached = <<>>
    /\ tlast = NoTaskCall /\ inflight = <<>>
    /\ used = NoneUsed /\ calls = [p \in Callers |-> Idle] /\ last = Idle
    /\ tz = 0 /\ InitQuery /\ InitCalc /\ InitApp

NextTasks ==
    \/ AddProject
    \/ \E projectId \in StoredProjectIds \cup {NoProject}, completed \in BOOLEAN :
           AddTask(projectId, completed)
    \/ \E taskId \in TaskIds, updates \in TaskUpdates : UpdateTask(taskId, updates)
    \/ \E taskId \in TaskIds : DeleteTask(taskId)
    \/ \E i \in 1..MaxDetached : SettleDetached(i)

SpecTasks == InitTasks /\ [][NextTasks]_vars

\* Tasks of one project toggled by calls that overlap: the project and its
\* tasks are stored while no call is in progress, then toggleTask is called
\* while earlier calls are still at an await.
InitOverlap == InitTasks /\ configured

NextOverlap ==
    \/ inflight = <<>> /\ detached = <<>> /\ Len(projects) < 1 /\ AddProject
    \/ /\ inflight = <<>> /\ detached = <<>> /\ Len(tasks) < MaxOverlapTasks
       /\ \E projectId \in StoredProjectIds : AddTask(projectId, FALSE)
    \/ \E taskId \in 1..MaxOverlapTasks, completed \in BOOLEAN :
           tlast.n < MaxOverlapCalls /\ BeginToggle(taskId, completed)
    \/ \E i \in 1..MaxInFlight : ResumeToggle(i)
    \/ \E i \in 1..MaxDetached : SettleDetached(i)

SpecOverlap == InitOverlap /\ [][NextOverlap]_vars

\* The store, one handler at a time.
Init ==
    adapter \in Adapters /\ InitStore /\ tz = 0 /\ InitQuery /\ InitCalc /\ InitApp

Next ==
    \/ InitUser
    \/ \E chosen \in OnboardingChoices :
           \E lucky \in SUBSET PastSeedIds(adapter, chosen) :
               CompleteOnboarding(chosen, lucky)
    \/ GetHabits
    \/ \E dates \in WeekRanges : GetWeekInstances(dates)
    \/ \E dateStr \in Dates : GetInstancesForDate(dateStr)
    \/ \E id \in KnownIds, completed \in BOOLEAN : UpdateInstanceStatus(id, completed)

Spec == Init /\ [][Next]_vars

\* The session around onboarding: initUser, getUser, completeOnboarding
\* (again, too) and updateUserSettings, one call at a time.
InitUserSession == Init

NextUserSession ==
    \/ InitUser
    \/ GetUser
    \/ \E interests \in InterestChoices, chosen \in OnboardingChoices,
          permissions \in PermissionChoices :
           \E lucky \in SUBSET PastSeedIds(adapter, chosen) :
               CompleteOnboardingAs(interests, chosen, permissions, lucky)
    \/ \E settings \in SettingsChoices : UpdateUserSettings(settings)

SpecUser == InitUserSession /\ [][NextUserSession]_vars

\* The store with calls overlapping at their awaits.
InitConc == Init

NextConc ==
    \/ \E p \in Callers : BeginInitUser(p)
    \/ \E p \in Callers, chosen \in OnboardingChoices : BeginOnboarding(p, chosen)
    \/ \E p \in Callers, dates \in WeekRanges : BeginWeek(p, dates)
    \/ \E p \in Callers, dateStr \in Dates : BeginDate(p, dateStr)
    \/ \E p \in Callers, id \in KnownIds, completed \in BOOLEAN :
           BeginUpdate(p, id, completed)
    \/ \E p \in Callers :
           \E lucky \in SUBSET SeededNext(adapter, calls[p]) : Resume(p, lucky)

SpecConc == InitConc /\ [][NextConc]_vars

-----------------------------------------------------------------------------
(* Claims about the scheduling rule (SpecSched) *)

\* Weekday of the calendar date a date string names.
CalendarWeekday(dateStr) == WeekdayOfDay(dateStr)

DueByCalendar(schedule, dateStr) ==
    CASE schedule = "DAILY" -> TRUE
      [] schedule = "WEEKDAYS" -> CalendarWeekday(dateStr) \in 1..5
      [] schedule = "WEEKENDS" -> CalendarWeekday(dateStr) \in {0, 6}
      [] OTHER -> TRUE

MaterialisedFor(created, habitId, dateStr) ==
    \E j \in 1..Len(created) :
        created[j].habitId = habitId /\ created[j].date = dateStr

\* C5: for every date and habit list, the habits for which an instance is
\* materialised on the date are exactly the DAILY habits, the WEEKDAYS habits
\* iff the date is Monday..Friday, the WEEKENDS habits iff it is Saturday or
\* Sunday, and the habits with CUSTOM or an unrecognised rule.
C5_DueExactlyByCalendarDay ==
    qOut.done =>
        \A i \in 1..Len(qHabits) :
            MaterialisedFor(qOut.created, qHabits[i].id, qDate)
                <=> DueByCalendar(qHabits[i].schedule, qDate)

-----------------------------------------------------------------------------
(* Claims about the streak / strength calculator (SpecStreak) *)

CalcList == History(sWindow, sTail)

\* Incomplete instances that end the walk: those not dated today.
Stops(list) ==
    {i \in 1..Len(list) : ~list[i].completed /\ list[i].date # TodayStr}

\* Completed instances newer than every stop.
CountedBeforeFirstStop(list) ==
    {i \in 1..Len(list) :
        /\ list[i].completed
        /\ \A k \in Stops(list) : list[i].date > list[k].date}

\* C6: getHabitStreak counts the completed instances met in descending date
\* order up to the first incomplete instance not dated today; an incomplete
\* instance dated today is skipped, so appending one never changes the
\* result; the empty list gives 0.
C6_StreakCountsUpToFirstStop ==
    sOut.done =>
        /\ sOut.streak = Cardinality(CountedBeforeFirstStop(CalcList))
        /\ CalcList = <<>> => sOut.streak = 0
        /\ TodayStr \notin WindowDates(sWindow) =>
               getHabitStreak(Append(CalcList, CalcInstance(TodayStr, FALSE)))
                   = sOut.streak

\* A streak that runs through today's open instance and ends at an older miss.
C6_Witness ==
    /\ sOut.done
    /\ sOut.streak >= 2
    /\ \E i \in 1..Len(CalcList) :
           CalcList[i].date = TodayStr /\ ~CalcList[i].completed
    /\ \E i \in 1..Len(CalcList) :
           CalcList[i].date < TodayStr /\ CalcList[i].completed

CompletedCount(list) == Cardinality({i \in 1..Len(list) : list[i].completed})

\* r is the integer nearest to num / den (den > 0), ties upward.
IsNearestInteger(r, num, den) ==
    (2 * r - 1) * den <= 2 * num /\ 2 * num < (2 * r + 1) * den

\* C8: calculateHabitStrength returns an integer in [0,100] equal to
\* round(0.7 * (100 * completed / total) + 0.3 * (100 * min(streak, 21) / 21)),
\* 0 for an empty list and for a list with no completed instance, and 100 for
\* 21 or more instances that are all completed.
C8_StrengthIsRoundedBlend ==
    sOut.done =>
        LET total == Len(CalcList)
            completed == CompletedCount(CalcList)
            streak == MinOf(getHabitStreak(CalcList), 21)
        IN  /\ sOut.strength \in 0..100
            /\ total = 0 => sOut.strength = 0
            /\ completed = 0 => sOut.strength = 0
            /\ (total >= 21 /\ completed = total) => sOut.strength = 100
            /\ total > 0 =>
                   IsNearestInteger(sOut.strength,
                                    70 * completed * 21 + 30 * streak * total,
                                    21 * total)

-----------------------------------------------------------------------------
(* Claims about the store under overlapping calls (SpecConc) *)

\* C1: whatever calls of completeOnboarding, getWeekInstances,
\* getInstancesForDate and updateInstanceStatus have run or are running, and
\* however their awaits interleave, storage holds at most one instance for
\* each (habitId, date) pair.
C1_OneInstancePerHabitAndDate ==
    \A i, j \in 1..Len(instances) :
        (instances[i].habitId = instances[j].habitId
            /\ instances[i].date = instances[j].date) => i = j

\* Caller p is about to write an instance it did not see when it read, and
\* that another call has stored in the meantime.
WritesOverStored(p) ==
    LET c == calls[p]
        days == IF adapter = "indexedDB" THEN {c.dates[c.k]}
                ELSE SeqToSet(c.dates)
    IN  /\ c.op = "getWeekInstances"
        /\ c.pc = "write"
        /\ \E d \in days, k \in 1..Len(c.seenHabits) :
               /\ IsScheduled(c.seenHabits[k], d, tz)
               /\ \A i \in 1..Len(c.seenInst) :
                      c.seenInst[i].id # <<d, c.seenHabits[k].id>>
               /\ \E i \in 1..Len(instances) :
                      instances[i].id = <<d, c.seenHabits[k].id>>

C1_Witness ==
    /\ adapter \in Keyed
    /\ \E p \in Callers : WritesOverStored(p)

-----------------------------------------------------------------------------
(* Claims about the store, one call at a time (Spec) *)

\* The step is a call of getWeekInstances.
WeekStep == last'.op = "getWeekInstances"

SameInstance(r) == <<r.id, r.completed>>

Returned(c) == {SameInstance(c.result[i]) : i \in 1..Len(c.result)}

\* C2: a second getWeekInstances(dates) directly after a first one with the
\* same dates creates no instance, leaves the stored instances as they are,
\* and returns the same set of instances.
C2_SecondWeekCallChangesNothing ==
    [][(last.op = "getWeekInstances" /\ WeekStep /\ last'.dates = last.dates)
          => /\ last'.created = <<>>
             /\ instances' = instances
             /\ Returned(last') = Returned(last)]_vars

\* The instances of due habits that storage lacks for the dates asked.
MissingDue(dates) ==
    {NewInstance(dates[k], habits[j]) :
        <<k, j>> \in {<<k, j>> \in (1..Len(dates)) \X (1..Len(habits)) :
            /\ IsScheduled(habits[j], dates[k], tz)
            /\ \A i \in 1..Len(instances) :
                   ~(instances[i].habitId = habits[j].id
                       /\ instances[i].date = dates[k])}}

\* C3: getWeekInstances(dates) creates, as an incomplete instance without
\* completion timestamp and with id date_habitId, exactly the instances that
\* storage lacks for a date of dates and a habit due on it -- also on dates
\* that hold instances of other habits -- and nothing else.
C3_CreatesExactlyTheMissing ==
    [][WeekStep => SeqToSet(last'.created) = MissingDue(last'.dates)]_vars

\* C4: getWeekInstances(dates) returns exactly the instances stored for the
\* dates when it ends, each one once.
C4_ReturnsTheStoredInstancesOnce ==
    last.op = "getWeekInstances" =>
        LET stored == OnDates(instances, last.dates)
        IN  /\ Returned(last) = {SameInstance(stored[i]) : i \in 1..Len(stored)}
            /\ \A i, j \in 1..Len(last.result) :
                   last.result[i].id = last.result[j].id => i = j

CompletedOn(habitId, dateStr) ==
    \E i \in 1..Len(instances) :
        /\ instances[i].habitId = habitId
        /\ instances[i].date = dateStr
        /\ instances[i].completed

\* Consecutive completed days of the habit from dateStr backward.
RECURSIVE DaysInARow(_, _)
DaysInARow(habitId, dateStr) ==
    IF dateStr >= Today - PastDays /\ CompletedOn(habitId, dateStr)
    THEN 1 + DaysInARow(habitId, dateStr - 1)
    ELSE 0

\* Walking backward from today; today still open does not end the run.
DayStreak(habitId) ==
    IF CompletedOn(habitId, Today)
    THEN DaysInARow(habitId, Today)
    ELSE DaysInARow(habitId, Today - 1)

\* C7: the streak getHabits reports for a habit due every day is the number
\* of consecutive most recent days, walking backward from today, on which its
\* instance was completed; instances dated after today do not change it.
C7_StreakCountsBackFromToday ==
    last.op = "getHabits" =>
        \A k \in 1..Len(last.streaks) :
            last.streaks[k].schedule = "DAILY" =>
                last.streaks[k].streak = DayStreak(last.streaks[k].id)

\* C9: every habit getHabits returns carries the current streak of the
\* instances stored for that habit at the time of the call.
C9_StreakFromStoredInstances ==
    last.op = "getHabits" =>
        \A k \in 1..Len(last.streaks) :
            last.streaks[k].streak =
                getHabitStreak(OfHabit(instances, last.streaks[k].id))

\* C10: every stored instance has a completion timestamp if and only if its
\* completed flag is true.
C10_TimestampIffCompleted ==
    \A i \in 1..Len(instances) :
        (instances[i].completedAt = "stamped") <=> instances[i].completed

-----------------------------------------------------------------------------
(* Claims about getSuggestions (SpecSuggest) *)

\* The position of a habit in the catalog.
CatalogRank(h) ==
    CHOOSE i \in 1..Len(SUGGESTED_HABITS) : SUGGESTED_HABITS[i].id = h.id

Wanted(h) == \E i \in 1..Len(gInterests) : gInterests[i] = h.interest

WantedCount ==
    Cardinality({i \in 1..Len(SUGGESTED_HABITS) : Wanted(SUGGESTED_HABITS[i])})

\* C18: over the 5-entry catalog getSuggestions returns the entries whose
\* interest is asked for, in catalog order, then the entries not yet selected,
\* in catalog order, up to 5 entries, without duplicates.
C18_SuggestionsMatchedThenBackfilled ==
    (gOut.done /\ HasCatalog(adapter)) =>
        LET r == gOut.result
            m == WantedCount
            rest == Len(SUGGESTED_HABITS) - m
        IN  /\ Len(r) = m + (IF rest < 5 - m THEN rest ELSE 5 - m)
            /\ Len(r) <= 5
            /\ \A j \in 1..Len(r) :
                   /\ \E i \in 1..Len(SUGGESTED_HABITS) : SUGGESTED_HABITS[i] = r[j]
                   /\ Wanted(r[j]) <=> j <= m
            /\ \A j, k \in 1..Len(r) :
                   (j < k /\ (j <= m <=> k <= m)) => CatalogRank(r[j]) < CatalogRank(r[k])
            /\ \A j, k \in 1..Len(r) : j # k => r[j].id # r[k].id

\* interests [HEALTH]: the one matching entry, then four backfilled ones.
C18_Witness ==
    /\ gOut.done /\ HasCatalog(adapter)
    /\ gInterests = <<"HEALTH">>
    /\ Len(gOut.result) = 5
    /\ gOut.result[1].interest = "HEALTH"
    /\ \A j \in 2..5 : gOut.result[j].interest # "HEALTH"

-----------------------------------------------------------------------------
(* Claims about tasks and projects (SpecTasks) *)

MemberTasks(projectId) == {i \in 1..Len(tasks) : tasks[i].projectId = projectId}

CompletedMembers(projectId) == {i \in MemberTasks(projectId) : tasks[i].completed}

\* C11: every stored project's progress is round(100 * completed member tasks
\* / member tasks), 0 without member tasks, over the tasks stored with its id.
C11_ProgressFollowsMemberTasks ==
    \A k \in 1..Len(projects) :
        LET total == Cardinality(MemberTasks(projects[k].id))
            completed == Cardinality(CompletedMembers(projects[k].id))
        IN  IF total = 0 THEN projects[k].progress = 0
            ELSE IsNearestInteger(projects[k].progress, 100 * completed, total)

\* C12: a stored project's status is 'completed' exactly when its progress is
\* 100, and 'active' otherwise.
C12_CompletedIffProgress100 ==
    \A k \in 1..Len(projects) :
        /\ projects[k].status \in {"active", "completed"}
        /\ projects[k].status = "completed" <=> projects[k].progress = 100

\* The fourth of four member tasks has just been completed.
C12_Witness ==
    /\ tlast.op = "updateTask" /\ tlast.key = "completed" /\ tlast.completed
    /\ ~tlast.threw
    /\ \E k \in 1..Len(projects) :
           /\ Cardinality(MemberTasks(projects[k].id)) = 4
           /\ Cardinality(CompletedMembers(projects[k].id)) = 4
           /\ tlast.id \in {tasks[i].id : i \in MemberTasks(projects[k].id)}
           /\ projects[k].progress = 100
           /\ projects[k].status = "completed"

\* C13: once addTask, updateTask or deleteTask has resolved, no recomputation
\* of a project's progress that it started is still running.
C13_RecomputationDoneBeforeReturn ==
    tlast.op \in {"addTask", "updateTask", "deleteTask"} => detached = <<>>

TaskCallStep == tlast'.n # tlast.n

\* C19: updateTask and deleteTask with an id that names no stored task change
\* neither tasks nor projects and do not raise an error.
C19_MissingIdIsNoOp ==
    [][(/\ TaskCallStep
        /\ configured
        /\ tlast'.op \in {"updateTask", "deleteTask"}
        /\ RowIndex(tasks, tlast'.id) = 0)
           => (/\ tasks' = tasks
               /\ projects' = projects
               /\ instances' = instances
               /\ ~tlast'.threw)]_vars

\* C20: with the backend not configured, a write operation fails with an
\* error.
C20_UnconfiguredWriteFails ==
    (~configured /\ tlast.op \in {"addTask", "updateTask", "deleteTask", "addProject"})
        => tlast.threw

-----------------------------------------------------------------------------
(* Claims about the user profile and onboarding (SpecUser, Spec) *)

\* C14: initUser on a stored profile returns that profile unchanged and
\* modifies no stored data; otherwise it stores exactly one profile, not
\* onboarded and with all three settings off, and returns it.
C14_InitUserIsIdempotent ==
    [][(last'.op = "initUser" /\ ~last'.threw) =>
          IF profile.exists
          THEN /\ last'.user = profile
               /\ profile' = profile
               /\ habits' = habits /\ instances' = instances
               /\ tasks' = tasks /\ projects' = projects
          ELSE /\ profile' = last'.user
               /\ profile'.exists /\ ~profile'.onboarded
               /\ profile'.settings = AllOff]_vars

\* C15: the getUser() that follows a completeOnboarding of the current user
\* returns the user onboarded, with the interests given and the settings the
\* permissions stand for.
C15_GetUserSeesOnboarding ==
    [][(/\ last.op = "completeOnboarding" /\ ~last.threw
        /\ profile.exists
        /\ last'.op = "getUser")
           => (/\ last'.user.exists
               /\ last'.user.onboarded
               /\ last'.user.interests = last.interests
               /\ last'.user.settings = SettingsOf(last.permissions))]_vars

\* The stored habit that came from a chosen one: the same template.
StoredFrom(row, h) == row.id[1] = h.id[1] /\ row.schedule = h.schedule

\* C16: completeOnboarding of the current user on a store without instances
\* persists the chosen habits and leaves an instance for every chosen habit
\* on every date of the seeded range on which the habit is due.
C16_OnboardingSeedsInstances ==
    [][(/\ last'.op = "completeOnboarding" /\ ~last'.threw
        /\ used'.onboardings = used.onboardings + 1
        /\ profile.exists
        /\ instances = <<>>)
           => \A k \in 1..Len(last'.chosen) :
                  \E i \in 1..Len(habits') :
                      /\ StoredFrom(habits'[i], last'.chosen[k])
                      /\ \A d \in 1..Len(SeedDates) :
                             DueByCalendar(last'.chosen[k].schedule, SeedDates[d])
                                 => \E j \in 1..Len(instances') :
                                        /\ instances'[j].date = SeedDates[d]
                                        /\ instances'[j].habitId = habits'[i].id]_vars

\* The habits stored are the chosen ones, each once.
StoredOnce(rows, chosen) ==
    /\ Len(rows) = Len(chosen)
    /\ \A k \in 1..Len(chosen) :
           \E i \in 1..Len(rows) : StoredFrom(rows[i], chosen[k])

\* C17: completeOnboarding called again by an onboarded user with the habits
\* already stored leaves the stored habit set as it was.
C17_SecondOnboardingAddsNoHabit ==
    [][(/\ last'.op = "completeOnboarding"
        /\ used'.onboardings = used.onboardings + 1
        /\ profile.onboarded
        /\ StoredOnce(habits, last'.chosen))
           => habits' = habits]_vars

-----------------------------------------------------------------------------
(* Claims about the weekday classification (SpecSched) *)

\* C27: the weekend / weekday classification of a date string used when
\* instances are materialised is that of the calendar date the string names
\* (Sunday = 0 .. Saturday = 6), and the instances materialised for the date
\* are the same for every client timezone offset.
C27_WeekendByCalendarDateOnly ==
    qOut.done =>
        /\ IsWeekend(qDate, tz) <=> CalendarWeekday(qDate) \in {0, 6}
        /\ \A offset \in TzOffsets :
               qOut.created = createInstancesForDay(qDate, qHabits, offset)

-----------------------------------------------------------------------------
(* Claims about completing one instance (SpecStreak) *)

\* The list with the instance at position i completed.
WithCompleted(list, i) ==
    [list EXCEPT ![i] = CalcInstance(list[i].date, TRUE)]

OpenPositions(list) == {i \in 1..Len(list) : ~list[i].completed}

\* C28: for every instance list with distinct dates, changing one incomplete
\* instance to completed never decreases the value of getHabitStreak and
\* never decreases the value of calculateHabitStrength for the list.
C28_CompletingNeverLowersScores ==
    sOut.done =>
        \A i \in OpenPositions(CalcList) :
            /\ getHabitStreak(WithCompleted(CalcList, i)) >= sOut.streak
            /\ calculateHabitStrength(WithCompleted(CalcList, i)) >= sOut.strength

\* Completing the one missed day joins today's run to the older run: the
\* streak grows by more than one and the strength grows with it.
C28_Witness ==
    /\ sOut.done
    /\ sOut.streak >= 1
    /\ \E i \in OpenPositions(CalcList) :
           /\ CalcList[i].date # TodayStr
           /\ getHabitStreak(WithCompleted(CalcList, i)) > sOut.streak + 1
           /\ calculateHabitStrength(WithCompleted(CalcList, i)) > sOut.strength

-----------------------------------------------------------------------------
(* Claims about what the store's calls do to the instances (SpecUser, Spec) *)

\* A completeOnboarding call has run from call to return.
OnboardStep ==
    last'.op = "completeOnboarding" /\ used'.onboardings = used.onboardings + 1

StoredIds(rows) == {rows[i].id : i \in 1..Len(rows)}

\* The instances stored after the step that were not stored before it.
CreatedByStep(before, after) ==
    {after[j] : j \in {j \in 1..Len(after) : after[j].id \notin StoredIds(before)}}

\* C26: seeding during completeOnboarding creates instances only on dates of
\* the window that had no instance before, and every instance it marks
\* completed is dated strictly before today: the instances it creates for
\* today and the following days are incomplete and carry no completion
\* timestamp.
C26_SeedsOnlyEmptyDatesAndPastCompletions ==
    [][OnboardStep =>
          \A r \in CreatedByStep(instances, instances') :
              /\ r.date \in SeqToSet(SeedDates)
              /\ OnDate(instances, r.date) = <<>>
              /\ r.completed => r.date < TodayStr
              /\ r.date >= TodayStr => ~r.completed /\ r.completedAt = "unset"]_vars

-----------------------------------------------------------------------------
(* Claims about completions under overlapping calls (SpecConc) *)

\* The step resumes caller p's getWeekInstances or getInstancesForDate call.
ReadCallResumes(p) ==
    /\ calls[p].op \in {"getWeekInstances", "getInstancesForDate"}
    /\ calls'[p] # calls[p]

\* The instances stored as completed for today or a later day: seeding
\* completes past days only, so updateInstanceStatus(id, true) stored each of
\* these, and its write is the last step before it returns.
RecordedCompletions ==
    {instances[i].id : i \in {i \in 1..Len(instances) :
        instances[i].completed /\ instances[i].date >= TodayStr}}

StoredCompleted(rows, id) ==
    \E j \in 1..Len(rows) : rows[j].id = id /\ rows[j].completed

\* C29: a completion recorded by updateInstanceStatus(id, true) that has
\* returned is never lost: no step of a getWeekInstances or
\* getInstancesForDate call running alongside leaves that instance stored
\* with completed = false, or not stored.
C29_CompletionSurvivesOverlappingReads ==
    [][\A p \in Callers :
          ReadCallResumes(p) =>
              \A id \in RecordedCompletions : StoredCompleted(instances', id)]_vars

-----------------------------------------------------------------------------
(* Claims about overlapping task mutations (SpecOverlap) *)

\* C30: when several task mutations on tasks of the same project run
\* concurrently, then once all of them have returned the stored progress and
\* status of the project are the values computed from the stored tasks.
C30_ProgressSettlesAfterOverlap ==
    (inflight = <<>> /\ detached = <<>>) =>
        \A i \in 1..Len(projects) :
            LET progress == ProgressOf(Cardinality(CompletedMembers(projects[i].id)),
                                       Cardinality(MemberTasks(projects[i].id)))
            IN  /\ projects[i].progress = progress
                /\ projects[i].status = StatusOf(progress)

-----------------------------------------------------------------------------
(* The dashboard: refreshData and handleTrigger (App.tsx) *)

\* handleTrigger runs in one behaviour.
MaxTriggers == 3

\* The streak from which a completion is congratulated.
StreakNoticeFrom == 3

\* How a call of the notification collaborator can end: the notice is sent,
\* the call throws, or the promise it returns rejects.
SendOutcomes == {"sent", "throws", "rejects"}

\* getWeekDays().map(formatDate): the dates around today.
WeekDates == [i \in 1..(PastDays + FutureDays + 1) |-> Today - PastDays + i - 1]

\* The store takes the state a handler left.
StoreBecomes(st) ==
    /\ profile' = st.profile
    /\ cache' = st.cache
    /\ habits' = st.habits
    /\ instances' = st.instances
    /\ tasks' = st.tasks
    /\ projects' = st.projects
    /\ used' = [used EXCEPT !.gens = st.gens]

\* refreshData(): the user, and for an onboarded user the habits and the
\* week's instances, are read from the store and put on screen (the tasks
\* and projects read between them change nothing in the store).
RefreshData ==
    \E n1 \in {Run(adapter, [c |-> NewCall("getUser"), st |-> Store], tz, {})} :
    \E n2 \in {Run(adapter, [c |-> HabitsCall, st |-> n1.st], tz, {})} :
    \E n3 \in {Run(adapter, [c |-> WeekCall(WeekDates), st |-> n2.st], tz, {})} :
        /\ IF n1.c.user.exists /\ n1.c.user.onboarded
           THEN /\ StoreBecomes(n3.st)
                /\ ui' = [ui EXCEPT
                       !.notificationsEnabled = n1.c.user.settings.notificationsEnabled,
                       !.habits = n2.c.streaks,
                       !.week = OnDates(n3.c.result, WeekDates)]
           ELSE /\ StoreBecomes(n1.st)
                /\ ui' = [ui EXCEPT
                       !.notificationsEnabled =
                           n1.c.user.exists /\ n1.c.user.settings.notificationsEnabled]
        /\ UNCHANGED <<adapter, configured, calls, last, tz, calcVars, detached,
                       tlast, inflight, suggestVars, session, accounts, since, fault>>

\* currentList.find(i => i.id === instanceId), as a list of at most one.
TargetOf(week, instanceId) ==
    LET Named(i) == i.id = instanceId
    IN  SelectSeq(week, Named)

\* currentList.map(i => i.id === instanceId ? { ...i, completed: newState } : i)
Toggled(week, instanceId, newState) ==
    [k \in 1..Len(week) |->
        IF week[k].id = instanceId
        THEN [week[k] EXCEPT !.completed = newState] ELSE week[k]]

\* The notification calls handleTrigger reaches, in order, when none of them
\* throws; random stands for Math.random() > 0.7.
NoticesDue(screen, target, newState, newWeek, random) ==
    IF ~(newState /\ screen.notificationsEnabled) THEN <<>>
    ELSE LET Mine(h) == h.id = target.habitId
             habit == SelectSeq(screen.habits, Mine)
             day == OnDate(newWeek, target.date)
             allDone == \A k \in 1..Len(day) : day[k].completed
         IN  (IF habit # <<>> /\ habit[1].streak >= StreakNoticeFrom /\ random
              THEN <<"sendStreakCongratulation">> ELSE <<>>)
             \o (IF allDone THEN <<"sendCompletionCongratulation">> ELSE <<>>)

\* The calls made when each call ends as outcome says: a call that throws
\* ends the handler.
NoticesMade(due, outcome) ==
    LET made == IF outcome = "throws" /\ due # <<>> THEN SubSeq(due, 1, 1) ELSE due
    IN  [k \in 1..Len(made) |-> [call |-> made[k], outcome |-> outcome]]

\* handleTrigger(instanceId): the instance on screen is toggled, the
\* notifications are sent, and the store is told.
HandleTrigger(instanceId, random, outcome) ==
    /\ ui.triggers < MaxTriggers
    /\ \E found \in {TargetOf(OnDate(ui.week, instanceId[1]), instanceId)} :
        IF found = <<>>
        THEN /\ ui' = [ui EXCEPT !.triggers = @ + 1,
                                 !.run = [NoTrigger EXCEPT !.instanceId = instanceId]]
             /\ UNCHANGED <<profile, cache, habits, instances, tasks, projects,
                            used, last>>
        ELSE \E newState \in {~found[1].completed} :
             \E newWeek \in {Toggled(ui.week, instanceId, newState)} :
             \E notices \in {NoticesMade(
                    NoticesDue(ui, found[1], newState, newWeek, random), outcome)} :
             \E n \in {Run(adapter, [c |-> UpdateCall(instanceId, newState),
                                     st |-> Store], tz, {})} :
                 IF notices # <<>> /\ outcome = "throws"
                 THEN /\ ui' = [ui EXCEPT
                            !.week = newWeek, !.triggers = @ + 1,
                            !.run = [instanceId |-> instanceId, newState |-> newState,
                                     notices |-> notices, invoked |-> FALSE,
                                     written |-> FALSE, threw |-> TRUE]]
                      /\ UNCHANGED <<profile, cache, habits, instances, tasks,
                                     projects, used, last>>
                 ELSE /\ ui' = [ui EXCEPT
                            !.week = newWeek, !.triggers = @ + 1,
                            !.run = [instanceId |-> instanceId, newState |-> newState,
                                     notices |-> notices, invoked |-> TRUE,
                                     written |-> ~n.c.threw, threw |-> n.c.threw]]
                      /\ StoreBecomes(n.st)
                      /\ last' = n.c
    /\ UNCHANGED <<adapter, configured, calls, tz, calcVars, detached, tlast,
                   inflight, suggestVars, session, accounts, since, fault>>

\* The ids the dashboard can hand to handleTrigger: the cards on screen.
ScreenIds == {ui.week[k].id : k \in 1..Len(ui.week)}

\* The dashboard of an onboarded user whose notifications are switched on
\* or off in the settings.
InitTrigger == Init

NextTrigger ==
    \/ InitUser
    \/ \E chosen \in OnboardingChoices :
           \E lucky \in SUBSET PastSeedIds(adapter, chosen) :
               used.onboardings < 1 /\ CompleteOnboarding(chosen, lucky)
    \/ \E settings \in SettingsChoices :
           used.updates < 1 /\ UpdateUserSettings(settings)
    \/ RefreshData
    \/ \E instanceId \in ScreenIds, random \in BOOLEAN, outcome \in SendOutcomes :
           HandleTrigger(instanceId, random, outcome)

SpecTrigger == InitTrigger /\ [][NextTrigger]_vars

-----------------------------------------------------------------------------
(* Claims about the dashboard (SpecTrigger) *)

\* C24: in handleTrigger a notification call that fails (it throws, or its
\* promise rejects) never keeps db.updateInstanceStatus from being invoked
\* for the toggled instance and never makes the handler's write fail.
C24_NotificationFailureNeverBlocksWrite ==
    (\E k \in 1..Len(ui.run.notices) : ui.run.notices[k].outcome # "sent")
        => ui.run.invoked /\ ui.run.written /\ ~ui.run.threw

-----------------------------------------------------------------------------
(* Claims about the stored instances (Spec) *)

\* Every row of before is still in after, with its completed flag and its
\* completion timestamp as they were.
KeptAsTheyWere(before, after) ==
    \A i \in 1..Len(before) :
        \E j \in 1..Len(after) :
            /\ after[j].id = before[i].id
            /\ after[j].completed = before[i].completed
            /\ after[j].completedAt = before[i].completedAt

\* C25: a stored instance is changed by updateInstanceStatus only and never
\* removed: initUser, completeOnboarding with its seeding, getHabits,
\* getWeekInstances and getInstancesForDate leave every instance that exists
\* in the store, with its completed flag and completion timestamp.
C25_OnlyUpdateChangesStoredInstances ==
    [][last'.op # "updateInstanceStatus" => KeptAsTheyWere(instances, instances')]_vars

-----------------------------------------------------------------------------
(* The session: sign-in, the current-user cache and reset.                 *)
(* A profile carries its id (the auth user's id in the backends, a random  *)
(* id in the browser stores) and the e-mail address it was made for; a     *)
(* user's e-mail address and auth id are one name here.  Habits, instances,*)
(* tasks and projects carry no owner here, so data is stored only through  *)
(* the browser stores, which keep one set of data for whoever uses them.   *)

\* Store calls, and task / project calls, in one behaviour of the session.
MaxSessionCalls == 4
MaxSessionTasks == 2

Remote(a) == a \in {"supabase", "firebase", "supabaseV2"}

\* newUser of initUser.
NewUserOf(id, email) ==
    [exists |-> TRUE, id |-> id, email |-> email, onboarded |-> FALSE,
     interests |-> <<>>, settings |-> AllOff]

\* 'u_' + Math.random().toString(36).substr(2, 9): an id no profile made
\* by an earlier call has (n counts the calls).
RandomUserId(n) == <<"u_", n>>

StoredUsers(rows) == {u \in UserIds : rows[u].exists}

\* The session as a service method finds it.
Session == [session |-> session, accounts |-> accounts, cache |-> cache]

\* The profile a read finds that names no e-mail: the row of the signed-in
\* user in the backends, the one USER item of localStorage, users[0] of
\* IndexedDB (first is the user whose random id sorts first).
FoundProfile(a, s, first) ==
    IF Remote(a)
    THEN IF s.session = SignedOut THEN NoProfile ELSE s.accounts[s.session]
    ELSE IF StoredUsers(s.accounts) = {} THEN NoProfile
    ELSE IF first \in StoredUsers(s.accounts) THEN s.accounts[first]
    ELSE s.accounts[CHOOSE u \in StoredUsers(s.accounts) : TRUE]

\* What getUser / initUser leave: the user returned (NoProfile for null),
\* whether the promise rejected, the stored rows, the cache, and whether
\* the habit, instance, task and project keys were removed.
Answer(user, threw, rows, cached, wiped) ==
    [user |-> user, threw |-> threw, accounts |-> rows, cache |-> cached,
     wiped |-> wiped]

\* getUser()
getUserAs(a, s, first) ==
    IF Remote(a) /\ s.session = SignedOut
    THEN Answer(NoProfile, FALSE, s.accounts, s.cache, FALSE)
    ELSE IF a # "supabaseV2" /\ s.cache.exists
    THEN Answer(s.cache, FALSE, s.accounts, s.cache, FALSE)
    ELSE LET found == FoundProfile(a, s, first)
         IN  IF found.exists
             THEN Answer(found, FALSE, s.accounts, found, FALSE)
             ELSE Answer(NoProfile, FALSE, s.accounts, s.cache, FALSE)

\* initUser(email, name); n numbers the call.
initUserAs(a, s, email, first, n) ==
    IF Remote(a) THEN
        IF s.session = SignedOut
        THEN Answer(NoProfile, TRUE, s.accounts, s.cache, FALSE)
        ELSE LET row == s.accounts[s.session]
                 existing ==
                     IF a = "firebase"
                     THEN \* the document of the signed-in user is read
                          Answer(row, FALSE, s.accounts,
                                 IF row.exists THEN row ELSE s.cache, FALSE)
                     ELSE getUserAs(a, s, first)
                 newUser == NewUserOf(s.session, email)
             IN  IF existing.user.exists THEN existing
                 ELSE Answer(newUser, FALSE,
                             [s.accounts EXCEPT ![s.session] = newUser],
                             newUser, FALSE)
    ELSE IF a = "localStorage" THEN
        LET stored == FoundProfile(a, s, first)
            newUser == NewUserOf(RandomUserId(n), email)
        IN  IF stored.exists /\ stored.email = email
            THEN Answer(stored, FALSE, s.accounts, stored, FALSE)
            ELSE Answer(newUser, FALSE,
                        [u \in UserIds |-> IF u = email THEN newUser ELSE NoProfile],
                        newUser, TRUE)
    ELSE \* indexedDB: the by-email index
        LET existing == s.accounts[email]
            newUser == NewUserOf(RandomUserId(n), email)
        IN  IF existing.exists
            THEN Answer(existing, FALSE, s.accounts, existing, FALSE)
            ELSE Answer(newUser, FALSE, [s.accounts EXCEPT ![email] = newUser],
                        newUser, FALSE)

\* reset()
resetAs(a, s) ==
    IF a \in {"localStorage", "indexedDB"}
    THEN [session |-> s.session, accounts |-> NoAccounts, cache |-> NoProfile,
          wiped |-> TRUE]
    ELSE IF a = "supabaseV2"
    THEN [session |-> s.session, accounts |-> s.accounts, cache |-> NoProfile,
          wiped |-> FALSE]
    ELSE \* supabase, firebase: signOut and nothing else
         [session |-> SignedOut, accounts |-> s.accounts, cache |-> s.cache,
          wiped |-> FALSE]

\* What a user-scoped operation does when it finds nobody signed in: the
\* browser stores ask for no session and go on, initUser of the backends
\* throws, their other operations return at their `if (!user)`; getHabits
\* and updateUserSettings of part_000 ask for no session either.
WhenSignedOut(a, op) ==
    IF ~Remote(a) THEN "proceeds"
    ELSE IF op = "initUser" THEN "throws"
    ELSE IF a = "supabaseV2" /\ op \in {"getHabits", "updateUserSettings"}
    THEN "proceeds"
    ELSE "returns"

\* The habit, instance, task and project keys are removed, or left.
DataAfter(wiped) ==
    IF wiped
    THEN habits' = <<>> /\ instances' = <<>> /\ tasks' = <<>> /\ projects' = <<>>
    ELSE UNCHANGED <<habits, instances, tasks, projects>>

\* AuthService.login / signup: u is signed in.
Login(u) ==
    /\ session # u
    /\ session' = u
    /\ since' = IF since.dropped.exists /\ since.next = SignedOut
                THEN [since EXCEPT !.next = u] ELSE NoReset
    /\ last' = [Idle EXCEPT !.op = "login"]
    /\ UNCHANGED <<adapter, configured, profile, cache, habits, instances,
                   taskVars, used, calls, tz, calcVars, suggestVars,
                   accounts, ui, fault>>

SessionGetUser(first) ==
    /\ used.started < MaxSessionCalls
    /\ \E r \in {getUserAs(adapter, Session, first)} :
           /\ cache' = r.cache
           /\ accounts' = r.accounts
           /\ last' = [Idle EXCEPT !.op = "getUser", !.user = r.user,
                                   !.threw = r.threw]
    /\ used' = [used EXCEPT !.started = @ + 1]
    /\ UNCHANGED <<adapter, configured, profile, habits, instances, taskVars,
                   calls, tz, calcVars, suggestVars, session, since, ui, fault>>

SessionInitUser(email, first) ==
    /\ used.started < MaxSessionCalls
    /\ \E r \in {initUserAs(adapter, Session, email, first, used.started)} :
           /\ cache' = r.cache
           /\ accounts' = r.accounts
           /\ DataAfter(r.wiped)
           /\ last' = [Idle EXCEPT !.op = "initUser", !.user = r.user,
                                   !.threw = r.threw]
    /\ used' = [used EXCEPT !.started = @ + 1]
    /\ UNCHANGED <<adapter, configured, profile, detached, tlast, inflight,
                   calls, tz, calcVars, suggestVars, session, since, ui, fault>>

\* resetApp(): AuthService.logout(), db.reset(), and the screen is cleared.
ResetApp ==
    /\ \E r \in {resetAs(adapter, [Session EXCEPT !.session = SignedOut])} :
           /\ session' = r.session
           /\ accounts' = r.accounts
           /\ cache' = r.cache
           /\ DataAfter(r.wiped)
    /\ since' = [dropped |-> cache, next |-> SignedOut]
    /\ ui' = BlankScreen
    /\ last' = [Idle EXCEPT !.op = "reset"]
    /\ UNCHANGED <<adapter, configured, profile, detached, tlast, inflight,
                   used, calls, tz, calcVars, suggestVars, fault>>

\* The settings screen's call.
SettingsCall(settings) ==
    [NewCall("updateUserSettings") EXCEPT !.settings = settings]

\* Another store call made in the session: it ends at once where the
\* operation asks for the signed-in user and finds none; else the handler
\* runs on the store with the profile its reads find.
SessionCall(c, first, lucky) ==
    /\ used.started < MaxSessionCalls
    /\ Allowed(c)
    /\ Remote(adapter) => session = SignedOut
    /\ IF session = SignedOut /\ WhenSignedOut(adapter, c.op) = "returns"
       THEN /\ last' = Finish(c)
            /\ used' = [used EXCEPT !.started = @ + 1]
            /\ UNCHANGED <<accounts, cache, habits, instances, tasks, projects>>
       ELSE \E r \in {Run(adapter,
                          [c |-> c,
                           st |-> [Store EXCEPT
                               !.profile = FoundProfile(adapter, Session, first)]],
                          tz, lucky)} :
            /\ accounts' = IF r.st.profile.exists
                           THEN [accounts EXCEPT ![r.st.profile.email] = r.st.profile]
                           ELSE accounts
            /\ cache' = r.st.cache
            /\ habits' = r.st.habits
            /\ instances' = r.st.instances
            /\ tasks' = r.st.tasks
            /\ projects' = r.st.projects
            /\ used' = [Charge(c, r.st.gens) EXCEPT !.started = @ + 1]
            /\ last' = r.c
    /\ UNCHANGED <<adapter, configured, profile, detached, tlast, inflight,
                   calls, tz, calcVars, suggestVars, session, since, ui, fault>>

\* addTask / addProject made in the session.
SessionTaskCall(call, out) ==
    /\ tlast.n < MaxSessionTasks
    /\ Remote(adapter) => session = SignedOut
    /\ IF session = SignedOut /\ WhenSignedOut(adapter, call.op) = "returns"
       THEN TaskCall(call, Resolved(TaskStore))
       ELSE TaskCall(call, out)

SessionAddProject ==
    /\ Len(projects) < MaxProjects
    /\ \E id \in {FreshId(projects, ProjectIds)} :
        SessionTaskCall([NoTaskCall EXCEPT !.op = "addProject", !.id = id],
                        addProject(adapter, TaskStore, NewProject(id)))

SessionAddTask ==
    /\ Len(tasks) < MaxTasks
    /\ \E id \in {FreshId(tasks, TaskIds)} :
        SessionTaskCall([NoTaskCall EXCEPT !.op = "addTask", !.id = id],
                        addTask(adapter, TaskStore,
                                [id |-> id, projectId |-> NoProject,
                                 completed |-> FALSE]))

\* Users sign in and out of one client; the profile is loaded for the
\* signed-in user's e-mail, or asked for with nobody signed in.
InitSession == Init

NextSession ==
    \/ \E u \in UserIds : Login(u)
    \/ \E first \in UserIds : SessionGetUser(first)
    \/ \E email \in UserIds, first \in UserIds :
           (session = SignedOut \/ email = session) /\ SessionInitUser(email, first)
    \/ ResetApp
    \/ \E first \in UserIds, chosen \in OnboardingChoices :
           cache.exists /\ SessionCall(OnboardCall(chosen), first, {})
    \/ \E first \in UserIds : SessionCall(HabitsCall, first, {})
    \/ \E first \in UserIds : SessionCall(WeekCall(WeekDates), first, {})
    \/ \E first \in UserIds, settings \in SettingsChoices :
           SessionCall(SettingsCall(settings), first, {})
    \/ SessionAddProject
    \/ SessionAddTask

SpecSession == InitSession /\ [][NextSession]_vars

-----------------------------------------------------------------------------
(* Claims about the session (SpecSession) *)

\* The operations of the store that work on the signed-in user's data.
UserScopedOps == {"initUser", "getHabits", "getWeekInstances", "updateUserSettings"}

\* C21: with nobody signed in, a user-scoped store operation (initUser,
\* getHabits, getWeekInstances, updateUserSettings, addTask, addProject)
\* fails towards its caller; it does not return an empty result or nothing.
C21_SignedOutCallsFail ==
    [][session = SignedOut =>
          /\ (tlast'.n # tlast.n => tlast'.threw)
          /\ (used'.started # used.started /\ last'.op \in UserScopedOps
                  => last'.threw)]_vars

\* C23: when reset() was called and then a user other than the one whose
\* profile the service had cached signed in, getUser() and initUser() do not
\* return that cached profile.
C23_ResetDropsCachedUser ==
    (/\ last.op \in {"getUser", "initUser"}
     /\ since.dropped.exists
     /\ since.next # SignedOut
     /\ session = since.next
     /\ since.next # since.dropped.email
     /\ last.user.exists)
        => last.user.id # since.dropped.id

-----------------------------------------------------------------------------
(* The store while the backend refuses writes.                             *)
(* localStorage.setItem throws, an IndexedDB request or a Firestore write  *)
(* rejects, and the Supabase client resolves to { error } without          *)
(* throwing.                                                               *)

\* Task and project calls in one behaviour with failing writes.
MaxFaultTaskCalls == 3

\* What the handler does when a write it awaits fails at the await c is at:
\* the browser stores and the Firebase service catch nothing; the Supabase
\* service reads `error` only in initUser; part_000 throws userError and
\* habitError, returns allInstances on insertError and reads no other
\* result.
OnWriteFailure(a, c) ==
    IF a \in {"localStorage", "indexedDB", "firebase"} THEN "throws"
    ELSE IF c.op \in {"initUser"} THEN "throws"
    ELSE IF a = "supabase" THEN "goes on"
    ELSE IF c.op = "updateUserSettings" THEN "throws"
    ELSE IF c.op = "completeOnboarding"
    THEN IF c.pc \in {"start", "habits"} THEN "throws" ELSE "goes on"
    ELSE IF c.op = "getWeekInstances" THEN "returns stored"
    ELSE "goes on"

\* The call run from its first await to its last while every write fails; n
\* is the call, the store, and whether a write has failed so far.
RECURSIVE RunFailing(_, _, _, _)
RunFailing(a, n, offset, lucky) ==
    IF n.c.pc = "done" THEN n
    ELSE LET m == Step(a, n.c, n.st, offset, lucky)
             writes == \/ m.st.profile # n.st.profile
                       \/ m.st.habits # n.st.habits
                       \/ m.st.instances # n.st.instances
         IN  IF ~writes
             THEN RunFailing(a, [c |-> m.c, st |-> m.st, failed |-> n.failed],
                             offset, lucky)
             ELSE IF OnWriteFailure(a, n.c) = "throws"
             THEN [c |-> Thrown(n.c, n.st).c, st |-> n.st, failed |-> TRUE]
             ELSE IF OnWriteFailure(a, n.c) = "returns stored"
             THEN [c |-> Finish([n.c EXCEPT !.result = n.c.seenInst]),
                   st |-> n.st, failed |-> TRUE]
             ELSE RunFailing(a, [c |-> m.c, st |-> n.st, failed |-> TRUE],
                             offset, lucky)

\* Every instance the call returned is in the store.
AllStored(result, rows) ==
    \A i \in 1..Len(result) : IndexOfId(rows, result[i].id) # 0

\* A store call during which the writes it issues fail.
FailingCall(c, lucky) ==
    /\ Allowed(c)
    /\ \E r \in {RunFailing(adapter, [c |-> c, st |-> Store, failed |-> FALSE],
                            tz, lucky)} :
           /\ r.failed
           /\ cache' = r.st.cache
           /\ used' = Charge(c, r.st.gens)
           /\ last' = r.c
           /\ fault' = [op |-> c.op, request |-> "write", threw |-> r.c.threw,
                        persisted |-> AllStored(r.c.result, r.st.instances)]
    /\ UNCHANGED <<adapter, configured, profile, habits, instances, taskVars,
                   calls, tz, calcVars, suggestVars, session, accounts, since, ui>>

\* What addTask, updateTask and deleteTask leave when the write to the
\* tasks fails: the Supabase services read no error they would throw.
FailingTaskOut(a, st) ==
    IF a \in {"localStorage", "indexedDB", "firebase"}
    THEN Rejected(st) ELSE Resolved(st)

\* A task call whose write fails; out is what the call leaves when the
\* write succeeds.
FailingTaskCall(call, out) ==
    /\ tlast.n < MaxFaultTaskCalls
    /\ out.st # TaskStore
    /\ \E failedOut \in {FailingTaskOut(adapter, TaskStore)} :
           /\ tlast' = [call EXCEPT !.n = tlast.n + 1, !.threw = failedOut.threw]
           /\ fault' = [op |-> call.op, request |-> "write",
                        threw |-> failedOut.threw, persisted |-> FALSE]
    /\ UNCHANGED <<adapter, configured, profile, cache, habits, instances,
                   tasks, projects, detached, inflight, used, calls, last, tz,
                   calcVars, suggestVars, session, accounts, since, ui>>

FailingAddTask ==
    /\ Len(tasks) < MaxTasks
    /\ \E id \in {FreshId(tasks, TaskIds)} :
           FailingTaskCall([NoTaskCall EXCEPT !.op = "addTask", !.id = id],
                           addTask(adapter, TaskStore,
                                   [id |-> id, projectId |-> NoProject,
                                    completed |-> FALSE]))

FailingUpdateTask(taskId, completed) ==
    \E updates \in {[key |-> "completed", completed |-> completed,
                     projectId |-> NoProject]} :
        FailingTaskCall([NoTaskCall EXCEPT !.op = "updateTask", !.id = taskId,
                            !.key = "completed", !.completed = completed],
                        updateTask(adapter, TaskStore, taskId, updates))

FailingDeleteTask(taskId) ==
    FailingTaskCall([NoTaskCall EXCEPT !.op = "deleteTask", !.id = taskId],
                    deleteTask(adapter, TaskStore, taskId))

\* The store used one call at a time; any call may find the backend
\* refusing its writes.
InitFault == Init

NextFault ==
    \/ InitUser
    \/ \E chosen \in OnboardingChoices :
           used.onboardings < 1 /\ CompleteOnboarding(chosen, {})
    \/ GetWeekInstances(WeekDates)
    \/ tlast.n < 1 /\ AddTask(NoProject, FALSE)
    \/ \E chosen \in OnboardingChoices : FailingCall(OnboardCall(chosen), {})
    \/ \E dates \in WeekRanges : FailingCall(WeekCall(dates), {})
    \/ \E id \in KnownIds, completed \in BOOLEAN :
           FailingCall(UpdateCall(id, completed), {})
    \/ FailingAddTask
    \/ \E taskId \in TaskIds, completed \in BOOLEAN :
           FailingUpdateTask(taskId, completed)
    \/ \E taskId \in TaskIds : FailingDeleteTask(taskId)

SpecFault == InitFault /\ [][NextFault]_vars

-----------------------------------------------------------------------------
(* Claims about failing storage (SpecFault) *)

\* C22: when a write issued by getWeekInstances, updateInstanceStatus,
\* completeOnboarding or a task mutation fails, the call fails towards its
\* caller: it does not return normally, and so returns no instances that
\* were not stored.
C22_FailedWriteFailsTheCall ==
    fault.request = "write" => fault.threw

=============================================================================
